---- MODULE Spec2Model ----
(***************************************************************************)
(* A model of linux-info: the key: value readers of /proc/cpuinfo and      *)
(* /proc/meminfo (src/src/cpu.rs, src/src/memory.rs), the DataSize parser  *)
(* and formatter (src/src/util.rs), the mountinfo line reader and the      *)
(* mdstat reader (src/src/storage.rs), Stat and CpuStat                    *)
(* (src/src/system.rs), the SMBIOS reader (src/src/bios), reload           *)
(* (read_to_string_mut, src/src/util.rs) and the decoders of the codes of  *)
(* NetworkManager and ModemManager (src/src/network).                      *)
(*                                                                         *)
(* A string is a sequence of one-character strings.  An Option is a        *)
(* sequence of length 0 (None) or 1 (Some).                                *)
(***************************************************************************)
EXTENDS Integers, Sequences, FiniteSets, TLC

VARIABLES
    raw,        \* the buffer of a Memory, CpuInfo, Raids or Stat
    bytes,       \* the bytes of a DataSize
    precision,  \* the precision a DataSize is formatted with, an Option
    text,       \* the text last formatted, or the text handed to from_str
    parsed,     \* what DataSize::from_str returned, an Option
    retext,     \* the text of the parsed DataSize, formatted again
    stage,      \* how far the DataSize under test has come
    line,       \* the raw text of a MountPoint
    out,        \* the result of the last call
    files,      \* the pseudo-files of the kernel: an Option of content per path
    reads,      \* the paths opened so far, in order
    call,       \* the call or iterator under way: its position and locals
    bios,       \* the Structures of a Bios, an Option
    facade,     \* the type of the reader that owns raw
    last        \* the last read or reload of the reader: the file it met
                \* and how the call ended, an Option

sizeVars == <<bytes, precision, text, parsed, retext, stage>>
ioVars == <<files, reads, call, bios, facade, last>>
vars == <<raw, sizeVars, line, out, ioVars>>

None == <<>>
Some(x) == <<x>>

Min(S) == CHOOSE x \in S : \A y \in S : x <= y
Max(S) == CHOOSE x \in S : \A y \in S : x >= y

(***************************************************************************)
(* str primitives of the standard library, as the parsers use them.        *)
(***************************************************************************)
WhiteSpace == {" ", "\t", "\n", "\r"}

RECURSIVE trim_start(_)
trim_start(s) ==
    IF s # <<>> /\ Head(s) \in WhiteSpace THEN trim_start(Tail(s)) ELSE s

RECURSIVE trim_end(_)
trim_end(s) ==
    IF s # <<>> /\ s[Len(s)] \in WhiteSpace
    THEN trim_end(SubSeq(s, 1, Len(s) - 1))
    ELSE s

trim(s) == trim_end(trim_start(s))

\* Index of the first occurrence of pat in s at or after i, 0 when there is none.
RECURSIVE find_from(_, _, _)
find_from(s, pat, i) ==
    IF i + Len(pat) - 1 > Len(s) THEN 0
    ELSE IF SubSeq(s, i, i + Len(pat) - 1) = pat THEN i
    ELSE find_from(s, pat, i + 1)

\* str::split(pat): the pieces between the non-overlapping occurrences of pat.
RECURSIVE split(_, _)
split(s, pat) ==
    LET i == find_from(s, pat, 1)
    IN  IF i = 0 THEN <<s>>
        ELSE <<SubSeq(s, 1, i - 1)>> \o split(SubSeq(s, i + Len(pat), Len(s)), pat)

\* str::splitn(2, pat): at most two pieces, cut at the first occurrence of pat.
splitn2(s, pat) ==
    LET i == find_from(s, pat, 1)
    IN  IF i = 0 THEN <<s>>
        ELSE <<SubSeq(s, 1, i - 1), SubSeq(s, i + Len(pat), Len(s))>>

UpperCase == <<"A", "B", "C", "D", "E", "F", "G", "H", "I", "J", "K", "L", "M",
               "N", "O", "P", "Q", "R", "S", "T", "U", "V", "W", "X", "Y", "Z">>
LowerCase == <<"a", "b", "c", "d", "e", "f", "g", "h", "i", "j", "k", "l", "m",
               "n", "o", "p", "q", "r", "s", "t", "u", "v", "w", "x", "y", "z">>

to_ascii_lowercase(c) ==
    IF \E i \in 1..26 : UpperCase[i] = c
    THEN LowerCase[CHOOSE i \in 1..26 : UpperCase[i] = c]
    ELSE c

eq_ignore_ascii_case(a, b) ==
    /\ Len(a) = Len(b)
    /\ \A i \in 1..Len(a) : to_ascii_lowercase(a[i]) = to_ascii_lowercase(b[i])

\* find_map with the keys compared exactly.
RECURSIVE find_value_exact(_, _)
find_value_exact(kvs, key) ==
    IF kvs = <<>> THEN None
    ELSE IF kvs[1][1] = key THEN Some(kvs[1][2])
    ELSE find_value_exact(Tail(kvs), key)

\* Iterator::find_map over a sequence of (key, value) pairs.
RECURSIVE find_value(_, _)
find_value(kvs, key) ==
    IF kvs = <<>> THEN None
    ELSE IF eq_ignore_ascii_case(kvs[1][1], key) THEN Some(kvs[1][2])
    ELSE find_value(Tail(kvs), key)

RECURSIVE filter_some(_)
filter_some(opts) ==
    IF opts = <<>> THEN <<>>
    ELSE IF opts[1] = None THEN filter_some(Tail(opts))
    ELSE <<opts[1][1]>> \o filter_some(Tail(opts))

(***************************************************************************)
(* The key: value line of cpuinfo and meminfo.                             *)
(***************************************************************************)
\* The closure of values(): a line with no ':' gives None.
line_key_value(l) ==
    LET parts == splitn2(l, <<":">>)
    IN  IF Len(parts) < 2 THEN None
        ELSE Some(<<trim(parts[1]), trim(parts[2])>>)

\* Memory::values: the pairs of the lines that hold a ':'.
Memory_values(buf) ==
    LET lines == split(buf, <<"\n">>)
    IN  filter_some([i \in 1..Len(lines) |-> line_key_value(lines[i])])

Memory_value(buf, key) == find_value(Memory_values(buf), key)

\* CpuInfo::all_infos: the raw text of each entry.
all_infos(buf) == split(buf, <<"\n", "\n">>)

\* CpuInfoEntry::values: one Option per line.
CpuInfoEntry_values(entry) ==
    LET lines == split(entry, <<"\n">>)
    IN  [i \in 1..Len(lines) |-> line_key_value(lines[i])]

CpuInfoEntry_value(entry, key) ==
    find_value(filter_some(CpuInfoEntry_values(entry)), key)

cores(buf) == Len(all_infos(buf))

\* The for_each with the contains test left out.
push_all(list, vs) == list \o vs

\* The for_each of unique_values: push v unless the list contains it.
RECURSIVE push_unique(_, _)
push_unique(list, vs) ==
    IF vs = <<>> THEN list
    ELSE push_unique(IF \E i \in 1..Len(list) : list[i] = vs[1]
                     THEN list
                     ELSE Append(list, vs[1]),
                     Tail(vs))

\* The values of key, one per entry that has it (the filter_map of unique_values).
entry_values(buf, key) ==
    LET infos == all_infos(buf)
    IN  filter_some([i \in 1..Len(infos) |-> CpuInfoEntry_value(infos[i], key)])

unique_values(buf, key) == push_unique(<<>>, entry_values(buf, key))

(***************************************************************************)
(* The buffers the key: value readers are run on: up to MaxItems lines     *)
(* joined by newlines, an empty line standing for the blank line between   *)
(* two cpuinfo entries.                                                    *)
(***************************************************************************)
MaxItems == 5

KvLines == {
    <<>>,
    <<"a", "\t", ":", " ", "1">>,
    <<"A", ":", "2", " ">>,
    <<"b", ":", "1", ":", "2">>,
    <<"a", "b">> }

KvKeys == { <<"a">>, <<"A">>, <<"b">>, <<"a", " ">> }

RECURSIVE join(_, _)
join(parts, sep) ==
    IF parts = <<>> THEN <<>>
    ELSE IF Len(parts) = 1 THEN parts[1]
    ELSE parts[1] \o sep \o join(Tail(parts), sep)

KvBuffers ==
    { join(items, <<"\n">>) :
        items \in UNION { [1..n -> KvLines] : n \in 0..MaxItems } }

NoCall == [op |-> "none"]

SizeIdle ==
    /\ bytes = <<>>
    /\ precision = None
    /\ text = <<>>
    /\ parsed = None
    /\ retext = <<>>
    /\ stage = "idle"

MountIdle == line = <<>>

ENTRY_POINT_PATH == "/sys/firmware/dmi/tables/smbios_entry_point"

STRUCTURES_PATH == "/sys/firmware/dmi/tables/DMI"

\* Stat::path
Stat_path == "/proc/loadavg"

\* Memory::path, MountPoints::path, Raids::path, Uptime::path
path(type) ==
    CASE type = "Memory" -> "/proc/meminfo"
      [] type = "MountPoints" -> "/proc/self/mountinfo"
      [] type = "Raids" -> "/proc/mdstat"
      [] type = "Uptime" -> "/proc/uptime"

Facades == {"Memory", "MountPoints", "Raids", "Uptime"}

Paths ==
    {"/proc/stat", "/proc/loadavg", ENTRY_POINT_PATH, STRUCTURES_PATH}
        \cup { path(t) : t \in Facades }

NoFiles == [p \in Paths |-> None]

NotCalled == [pc |-> "idle"]

IoIdle ==
    /\ files = NoFiles
    /\ reads = <<>>
    /\ call = NotCalled
    /\ bios = None
    /\ facade = "none"
    /\ last = None

InitKv ==
    /\ raw \in KvBuffers
    /\ out = NoCall
    /\ SizeIdle
    /\ IoIdle
    /\ MountIdle

\* The caller holds one result at a time: a call is made once the last
\* result is dropped.
CallMemoryValue ==
    \E key \in KvKeys :
        /\ out = NoCall
        /\ out' = [op |-> "Memory::value", key |-> key,
                   res |-> Memory_value(raw, key)]
        /\ UNCHANGED <<raw, sizeVars, line, ioVars>>

CallEntryValue ==
    \E key \in KvKeys, n \in 1..Len(all_infos(raw)) :
        /\ out = NoCall
        /\ out' = [op |-> "CpuInfoEntry::value", key |-> key, n |-> n,
                   res |-> CpuInfoEntry_value(all_infos(raw)[n], key)]
        /\ UNCHANGED <<raw, sizeVars, line, ioVars>>

CallUniqueValues ==
    \E key \in KvKeys :
        /\ out = NoCall
        /\ out' = [op |-> "unique_values", key |-> key,
                   res |-> unique_values(raw, key)]
        /\ UNCHANGED <<raw, sizeVars, line, ioVars>>

CallCores ==
    /\ out = NoCall
    /\ out' = [op |-> "cores", res |-> cores(raw)]
    /\ UNCHANGED <<raw, sizeVars, line, ioVars>>

DropResult ==
    /\ out # NoCall
    /\ out' = NoCall
    /\ UNCHANGED <<raw, sizeVars, line, ioVars>>

NextKv ==
    \/ CallMemoryValue
    \/ CallEntryValue
    \/ CallUniqueValues
    \/ CallCores
    \/ DropResult

SpecKv == InitKv /\ [][NextKv]_vars

(***************************************************************************)
(* What the key: value claims say, stated by positions in the text: the    *)
(* pieces of a text between the occurrences of a character, and the text   *)
(* between the first and the last character that is not white space.       *)
(***************************************************************************)
Kth(S, k) == CHOOSE x \in S : Cardinality({y \in S : y < x}) = k - 1

Cuts(t, c) == {i \in 1..Len(t) : t[i] = c} \cup {0, Len(t) + 1}

PieceCount(t, c) == Cardinality(Cuts(t, c)) - 1

Piece(t, c, j) ==
    SubSeq(t, Kth(Cuts(t, c), j) + 1, Kth(Cuts(t, c), j + 1) - 1)

Stripped(t) ==
    LET ink == {i \in 1..Len(t) : t[i] \notin WhiteSpace}
    IN  IF ink = {} THEN <<>> ELSE SubSeq(t, Min(ink), Max(ink))

SameLetters(a, b) ==
    /\ Len(a) = Len(b)
    /\ \A i \in 1..Len(a) :
          \/ a[i] = b[i]
          \/ \E j \in 1..26 : {a[i], b[i]} = {UpperCase[j], LowerCase[j]}

FirstColon(l) == Min({i \in 1..Len(l) : l[i] = ":"})

LineHasKey(l, key) ==
    /\ \E i \in 1..Len(l) : l[i] = ":"
    /\ SameLetters(Stripped(SubSeq(l, 1, FirstColon(l) - 1)), key)

LineValue(l) == Stripped(SubSeq(l, FirstColon(l) + 1, Len(l)))

MatchingLines(t, key) ==
    {j \in 1..PieceCount(t, "\n") : LineHasKey(Piece(t, "\n", j), key)}

FirstMatch(t, key) ==
    IF MatchingLines(t, key) = {} THEN None
    ELSE Some(LineValue(Piece(t, "\n", Min(MatchingLines(t, key)))))

\* C1: value(key) of Memory and of CpuInfoEntry is the trimmed value of the
\* first line whose trimmed key equals key up to ASCII case, and is None
\* only when no line has such a key.
C1_ValueFirstMatch ==
    /\ out.op = "Memory::value" => out.res = FirstMatch(raw, out.key)
    /\ out.op = "CpuInfoEntry::value" =>
          out.res = FirstMatch(all_infos(raw)[out.n], out.key)

\* A lookup of "a" in a buffer with two matching lines, the first of them
\* spelled "A" and padded.
C1_Witness ==
    /\ out.op = "Memory::value"
    /\ out.key = <<"a">>
    /\ out.res = Some(<<"2">>)
    /\ \E j \in MatchingLines(raw, out.key) :
          LineValue(Piece(raw, "\n", j)) = <<"1">>

\* The values of key, entry by entry, for the entries that have one.
ValuesPerEntry(buf, key) ==
    LET infos == all_infos(buf)
    IN  filter_some([i \in 1..Len(infos) |-> FirstMatch(infos[i], key)])

FirstIndex(vs, v) == Min({i \in 1..Len(vs) : vs[i] = v})

\* C2: unique_values(key) holds every per-entry value of key once, in the
\* order in which the values first appear.
C2_UniqueFirstSeen ==
    out.op = "unique_values" =>
        LET r  == out.res
            vs == ValuesPerEntry(raw, out.key)
        IN  /\ \A i, j \in 1..Len(r) : i # j => r[i] # r[j]
            /\ {r[i] : i \in 1..Len(r)} = {vs[i] : i \in 1..Len(vs)}
            /\ \A i, j \in 1..Len(r) :
                  i < j => FirstIndex(vs, r[i]) < FirstIndex(vs, r[j])

\* Three entries with the values 2, 1, 2: the repeated value is dropped.
C2_Witness ==
    /\ out.op = "unique_values"
    /\ ValuesPerEntry(raw, out.key) = << <<"2">>, <<"1">>, <<"2">> >>
    /\ out.res = << <<"2">>, <<"1">> >>

\* The number of blocks of non-empty lines.
BlockCount(t) ==
    Cardinality({j \in 1..PieceCount(t, "\n") :
        /\ Piece(t, "\n", j) # <<>>
        /\ j = 1 \/ Piece(t, "\n", j - 1) = <<>>})

\* C3: cores() is the number of blank-line-delimited blocks of lines, also
\* for a buffer that ends with a blank line and for the empty buffer.
C3_CoresCountsBlocks ==
    out.op = "cores" => out.res = BlockCount(raw)

(***************************************************************************)
(* DataSize (src/src/util.rs).                                             *)
(*                                                                         *)
(* A u128 byte count is held as its base-1024 limbs, least significant     *)
(* first and with no leading zero limb (<<>> is 0), since the unit values  *)
(* go up to 1024^4.  An f64 is held as the exact ratio num / den of two    *)
(* such numbers: the quotients the code takes are by unit values, powers   *)
(* of two, and are exact in f64 for the byte counts below 2^53 that the    *)
(* model ranges over.                                                      *)
(***************************************************************************)
Base == 1024

RECURSIVE FromInt(_)
FromInt(n) == IF n = 0 THEN <<>> ELSE <<n % Base>> \o FromInt(n \div Base)

RECURSIVE ToInt(_)
ToInt(b) == IF b = <<>> THEN 0 ELSE b[1] + Base * ToInt(Tail(b))

RECURSIVE Canon(_)
Canon(b) ==
    IF b # <<>> /\ b[Len(b)] = 0 THEN Canon(SubSeq(b, 1, Len(b) - 1)) ELSE b

BigLt(a, b) ==
    \/ Len(a) < Len(b)
    \/ /\ Len(a) = Len(b)
       /\ \E i \in 1..Len(a) :
             /\ a[i] < b[i]
             /\ \A j \in (i + 1)..Len(a) : a[j] = b[j]

RECURSIVE AddCarry(_, _, _)
AddCarry(a, b, c) ==
    IF a = <<>> /\ b = <<>> THEN FromInt(c)
    ELSE LET x == IF a = <<>> THEN 0 ELSE a[1]
             y == IF b = <<>> THEN 0 ELSE b[1]
             t == x + y + c
         IN  <<t % Base>> \o AddCarry(IF a = <<>> THEN a ELSE Tail(a),
                                      IF b = <<>> THEN b ELSE Tail(b),
                                      t \div Base)

BigAdd(a, b) == AddCarry(a, b, 0)

RECURSIVE MulCarry(_, _, _)
MulCarry(a, m, c) ==
    IF a = <<>> THEN FromInt(c)
    ELSE LET t == a[1] * m + c
         IN  <<t % Base>> \o MulCarry(Tail(a), m, t \div Base)

\* a * m for a machine integer m.
MulSmall(a, m) == IF m = 0 THEN <<>> ELSE MulCarry(a, m, 0)

RECURSIVE BigMul(_, _)
BigMul(a, b) ==
    IF a = <<>> \/ b = <<>> THEN <<>>
    ELSE LET rest == BigMul(a, Tail(b))
         IN  BigAdd(MulSmall(a, b[1]),
                    IF rest = <<>> THEN <<>> ELSE <<0>> \o rest)

\* Quotient and remainder of a by a machine integer m > 0, from the top limb.
RECURSIVE DivRemSmall(_, _)
DivRemSmall(a, m) ==
    IF a = <<>> THEN [q |-> <<>>, r |-> 0]
    ELSE LET hi == DivRemSmall(Tail(a), m)
             t  == hi.r * Base + a[1]
         IN  [q |-> <<t \div m>> \o hi.q, r |-> t % m]

DivSmall(a, m) == Canon(DivRemSmall(a, m).q)

\* Quotient and remainder of a by a power of 1024, d = 1024^(Len(d) - 1).
Quot(a, d) == SubSeq(a, Len(d), Len(a))
Rem(a, d) == Canon(SubSeq(a, 1, IF Len(a) < Len(d) THEN Len(a) ELSE Len(d) - 1))

RECURSIVE Pow10(_)
Pow10(n) == IF n = 0 THEN 1 ELSE 10 * Pow10(n - 1)

DEF_PRECISION == 2

Units == <<"B", "Kb", "Mb", "Gb", "Tb">>

\* DataSizeUnit::val
val(unit) ==
    CASE unit = "B"  -> FromInt(1)
      [] unit = "Kb" -> FromInt(1024)
      [] unit = "Mb" -> MulSmall(FromInt(1024), 1024)
      [] unit = "Gb" -> MulSmall(MulSmall(FromInt(1024), 1024), 1024)
      [] unit = "Tb" ->
           MulSmall(MulSmall(MulSmall(FromInt(1024), 1024), 1024), 1024)

eqs(a, b) == eq_ignore_ascii_case(a, b)

\* DataSizeUnit::from_str with any other text taken for bytes.
DataSizeUnit_from_str_lax(s) ==
    IF s = <<>> THEN Some("B")
    ELSE IF eqs(s, <<"k", "b">>) THEN Some("Kb")
    ELSE IF eqs(s, <<"m", "b">>) THEN Some("Mb")
    ELSE IF eqs(s, <<"g", "b">>) THEN Some("Gb")
    ELSE IF eqs(s, <<"t", "b">>) THEN Some("Tb")
    ELSE Some("B")

DataSizeUnit_from_str(s) ==
    IF s = <<>> THEN Some("B")
    ELSE IF eqs(s, <<"b">>) THEN Some("B")
    ELSE IF eqs(s, <<"k", "b">>) THEN Some("Kb")
    ELSE IF eqs(s, <<"m", "b">>) THEN Some("Mb")
    ELSE IF eqs(s, <<"g", "b">>) THEN Some("Gb")
    ELSE IF eqs(s, <<"t", "b">>) THEN Some("Tb")
    ELSE None

\* The unit values in base 1000.
val_decimal(unit) ==
    CASE unit = "B"  -> FromInt(1)
      [] unit = "Kb" -> FromInt(1000)
      [] unit = "Mb" -> MulSmall(FromInt(1000), 1000)
      [] unit = "Gb" -> MulSmall(MulSmall(FromInt(1000), 1000), 1000)
      [] unit = "Tb" ->
           MulSmall(MulSmall(MulSmall(FromInt(1000), 1000), 1000), 1000)

\* to_byte with the unit values in base 1000.
to_byte_decimal(unit, v) ==
    DivSmall(BigMul(v.num, val_decimal(unit)), ToInt(v.den))

\* DataSizeUnit::to_byte: (val * self.val() as f64) as u128 truncates.  val
\* comes from parse_f64, and its denominator is a power of ten.
to_byte(unit, v) == DivSmall(BigMul(v.num, val(unit)), ToInt(v.den))

\* adjust_to with <= for <.
adjust_to_inclusive(byte) ==
    IF ~BigLt(val("Kb"), byte) THEN "B"
    ELSE IF ~BigLt(val("Mb"), byte) THEN "Kb"
    ELSE IF ~BigLt(val("Gb"), byte) THEN "Mb"
    ELSE IF ~BigLt(val("Tb"), byte) THEN "Gb"
    ELSE "Tb"

adjust_to(byte) ==
    IF BigLt(byte, val("Kb")) THEN "B"
    ELSE IF BigLt(byte, val("Mb")) THEN "Kb"
    ELSE IF BigLt(byte, val("Gb")) THEN "Mb"
    ELSE IF BigLt(byte, val("Tb")) THEN "Gb"
    ELSE "Tb"

convert(byte, to) == [num |-> byte, den |-> val(to)]

as_str(unit) ==
    CASE unit = "B"  -> <<"b">>
      [] unit = "Kb" -> <<"k", "b">>
      [] unit = "Mb" -> <<"m", "b">>
      [] unit = "Gb" -> <<"g", "b">>
      [] unit = "Tb" -> <<"t", "b">>

\* f64::fract and f64::round (half away from zero) of a ratio over a unit value.
fract(v) == [num |-> Rem(v.num, v.den), den |-> v.den]

round(v) ==
    IF BigLt(MulSmall(Rem(v.num, v.den), 2), v.den)
    THEN Quot(v.num, v.den)
    ELSE BigAdd(Quot(v.num, v.den), FromInt(1))

\* The loop of calculate_precision on the rounded integer n: n / 10 has a
\* fraction when n is no multiple of 10.
RECURSIVE precision_loop(_, _)
precision_loop(n, m) ==
    IF m = 0 THEN 0
    ELSE IF n % 10 # 0 THEN m
    ELSE precision_loop(n \div 10, m - 1)

calculate_precision(fr, max) ==
    LET max_number == Pow10(max)
        scaled     == [num |-> MulSmall(fr.num, max_number), den |-> fr.den]
    IN  precision_loop(ToInt(round(scaled)), max)

DigitChars == <<"0", "1", "2", "3", "4", "5", "6", "7", "8", "9">>

is_ascii_digit(c) == \E i \in 1..10 : DigitChars[i] = c

DigitValue(c) == (CHOOSE i \in 1..10 : DigitChars[i] = c) - 1

RECURSIVE IntToStr(_)
IntToStr(n) ==
    IF n < 10 THEN <<DigitChars[n + 1]>>
    ELSE Append(IntToStr(n \div 10), DigitChars[(n % 10) + 1])

\* The {:.prec} of an f64: the exact value rounded to prec decimals, a tie
\* going to the even digit.
FormatFixed(v, prec) ==
    LET scaled == [num |-> MulSmall(v.num, Pow10(prec)), den |-> v.den]
        q      == Quot(scaled.num, scaled.den)
        twice  == MulSmall(Rem(scaled.num, scaled.den), 2)
        up     == \/ BigLt(scaled.den, twice)
                  \/ twice = scaled.den /\ ToInt(q) % 2 = 1
        n      == ToInt(q) + (IF up THEN 1 ELSE 0)
    IN  IntToStr(n \div Pow10(prec))
        \o (IF prec = 0 THEN <<>>
            ELSE <<".">> \o [i \in 1..prec |->
                     DigitChars[((n \div Pow10(prec - i)) % 10) + 1]])

\* DataSizeUnit::fmt_val; prec is f.precision().
fmt_val(unit, v, prec) ==
    LET p == IF fract(v).num = <<>> THEN 0
             ELSE LET max == IF prec = None THEN DEF_PRECISION ELSE prec[1]
                  IN  IF max <= 1 THEN max
                      ELSE calculate_precision(fract(v), max)
    IN  FormatFixed(v, p) \o <<" ">> \o as_str(unit)

\* impl Display for DataSize
Display(b, prec) ==
    LET unit == adjust_to(b)
    IN  fmt_val(unit, convert(b, unit), prec)

RECURSIVE count_digits(_, _)
count_digits(s, i) ==
    IF i <= Len(s) /\ is_ascii_digit(s[i]) THEN 1 + count_digits(s, i + 1) ELSE 0

RECURSIVE DecimalValue(_)
DecimalValue(ds) ==
    IF ds = <<>> THEN 0
    ELSE 10 * DecimalValue(SubSeq(ds, 1, Len(ds) - 1)) + DigitValue(ds[Len(ds)])

\* parse_f64 that stops at the dot.
parse_f64_no_dot(s) ==
    LET n == count_digits(s, 1)
    IN  IF n < 1 THEN None
        ELSE Some([val |-> [num |-> FromInt(DecimalValue(SubSeq(s, 1, n))),
                            den |-> FromInt(1)],
                   end |-> n])

\* parse_f64: the digits, a dot and more digits when there is one, parsed as
\* an f64; end is how much of s it consumed.
parse_f64(s) ==
    LET n       == count_digits(s, 1)
        has_dot == n + 1 <= Len(s) /\ s[n + 1] = "."
        m       == IF has_dot THEN count_digits(s, n + 2) ELSE 0
        end     == IF has_dot THEN n + 1 + m ELSE n
    IN  IF n < 1 THEN None
        ELSE Some([val |-> [num |-> FromInt(DecimalValue(
                                       SubSeq(s, 1, n) \o SubSeq(s, n + 2, end))),
                            den |-> FromInt(Pow10(m))],
                   end |-> end])

\* DataSize::from_str
DataSize_from_str(s) ==
    LET float == parse_f64(s)
    IN  IF float = None THEN None
        ELSE LET unit == DataSizeUnit_from_str(
                             trim(SubSeq(s, float[1].end + 1, Len(s))))
             IN  IF unit = None THEN None
                 ELSE Some(to_byte(unit[1], float[1].val))

\* DataSize::to
to(b, unit) == convert(b, unit)

(***************************************************************************)
(* The DataSize values and texts under test.  A value is a leading number  *)
(* over up to four lower limbs, the highest of them from FracLimbs; a text *)
(* is a number, a gap and a suffix.                                        *)
(***************************************************************************)
MaxPrecision == 3

Leads == {1, 2, 1023, 2000}
FracLimbs == {0, 1, 24, 31, 102, 128, 256, 512, 768, 1023}
FillLimbs == {0, 1023}

SizeInputs ==
    {<<>>} \cup {FromInt(l) : l \in Leads}
    \cup { [i \in 1..(k - 1) |-> fill] \o <<f>> \o FromInt(l) :
             k \in 1..(Len(Units) - 1), l \in Leads,
             f \in FracLimbs, fill \in FillLimbs }

Precisions == {None} \cup {Some(p) : p \in 0..MaxPrecision}

TextNumbers == {
    <<>>, <<"0">>, <<"1">>, <<"0", "0", "7">>, <<"2", "4", "5", "7", "6">>,
    <<"1", ".", "5">>, <<"1", ".">>, <<".", "5">>, <<"-", "1">>, <<" ", "1">> }

TextGaps == { <<>>, <<" ">>, <<" ", " ">> }

TextSuffixes == {
    <<>>, <<"b">>, <<"B">>, <<"k", "b">>, <<"k", "B">>, <<"K", "B">>,
    <<"m", "b">>, <<"M", "b">>, <<"g", "b">>, <<"G", "B">>, <<"t", "b">>,
    <<"t", "B">>, <<"k">>, <<"k", "b", "b">>, <<"k", " ", "b">>, <<"x">>,
    <<".", "3">>, <<"k", "b", " ">> }

TextInputs ==
    { n \o g \o u : n \in TextNumbers, g \in TextGaps, u \in TextSuffixes }

KvIdle == raw = <<>>

InitSize ==
    /\ \/ /\ stage = "value"
          /\ bytes \in SizeInputs
          /\ precision \in Precisions
          /\ text = <<>>
       \/ /\ stage = "input"
          /\ bytes = <<>>
          /\ precision = None
          /\ text \in TextInputs
    /\ parsed = None
    /\ retext = <<>>
    /\ out = NoCall
    /\ KvIdle
    /\ MountIdle
    /\ IoIdle

\* size.to_string(), or format!("{:.p}", size)
Format ==
    /\ stage = "value"
    /\ text' = Display(bytes, precision)
    /\ stage' = "shown"
    /\ UNCHANGED <<raw, bytes, precision, parsed, retext, line, out, ioVars>>

FromStr ==
    /\ stage \in {"shown", "input"}
    /\ parsed' = DataSize_from_str(text)
    /\ stage' = IF stage = "shown" THEN "parsed_shown" ELSE "parsed_input"
    /\ UNCHANGED <<raw, bytes, precision, text, retext, line, out, ioVars>>

Reformat ==
    /\ stage = "parsed_shown"
    /\ parsed # None
    /\ retext' = Display(parsed[1], precision)
    /\ stage' = "reshown"
    /\ UNCHANGED <<raw, bytes, precision, text, parsed, line, out, ioVars>>

CallTo ==
    \E i \in 1..Len(Units) :
        /\ stage \in {"parsed_shown", "parsed_input"}
        /\ parsed # None
        /\ out = NoCall
        /\ out' = [op |-> "to", unit |-> Units[i], res |-> to(parsed[1], Units[i])]
        /\ UNCHANGED <<raw, sizeVars, line, ioVars>>

NextSize ==
    \/ Format
    \/ FromStr
    \/ Reformat
    \/ CallTo
    \/ DropResult

SpecSize == InitSize /\ [][NextSize]_vars

(***************************************************************************)
(* What the DataSize claims say.  b < 1024^j holds exactly when b has at   *)
(* most j limbs, so the unit of a byte count is read off its length.       *)
(***************************************************************************)
UnitText == << <<"b">>, <<"k", "b">>, <<"m", "b">>, <<"g", "b">>, <<"t", "b">> >>

\* 0 for bytes up to 4 for tb: the largest unit in which b is at least 1.
UnitIndex(b) ==
    IF Len(b) <= 1 THEN 0 ELSE IF Len(b) >= 5 THEN 4 ELSE Len(b) - 1

\* x * 1024^k
Times1024(x, k) == IF x = <<>> THEN <<>> ELSE [i \in 1..k |-> 0] \o x

BigLe(a, b) == ~BigLt(b, a)

\* |x - y| <= d
Within(x, y, d) == BigLe(x, BigAdd(y, d)) /\ BigLe(y, BigAdd(x, d))

\* How many characters from position i on are digits.
DigitRun(t, i) ==
    Cardinality({j \in i..Len(t) : \A h \in i..j : is_ascii_digit(t[h])})

\* The end of the number a text starts with: digits, then a dot and digits.
NumberEnd(t) ==
    LET n == DigitRun(t, 1)
    IN  IF n + 1 <= Len(t) /\ t[n + 1] = "."
        THEN n + 1 + DigitRun(t, n + 2)
        ELSE n

IsUnitText(t) == t = <<>> \/ \E k \in 1..5 : SameLetters(t, UnitText[k])

UnitOfText(t) ==
    IF t = <<>> THEN 0 ELSE (CHOOSE k \in 1..5 : SameLetters(t, UnitText[k])) - 1

\* The number printed in front of the unit: its digits as an integer, and
\* how many of them follow the dot.
Printed(t) ==
    LET num == Piece(t, " ", 1)
        dot == {i \in 1..Len(num) : num[i] = "."}
        d   == IF dot = {} THEN 0 ELSE Len(num) - Min(dot)
    IN  [mant |-> DecimalValue(SubSeq(num, 1, Len(num) - d - (IF d = 0 THEN 0 ELSE 1))
                               \o SubSeq(num, Len(num) - d + 1, Len(num))),
         decimals |-> d,
         last |-> num[Len(num)]]

MaxOf(prec) == IF prec = None THEN DEF_PRECISION ELSE prec[1]

\* b over the value of its unit has at most p decimals.
ExactAt(b, p) ==
    LET scaled == MulSmall(b, Pow10(p))
    IN  \A i \in 1..UnitIndex(b) : i <= Len(scaled) => scaled[i] = 0

\* C4 as claimed: for every byte count and precision, the formatted text
\* parses, and the parsed value formats to the same text.  Precision 1 is
\* left aside: there the text can end in ".0" (C8), which fails it too.
C4_RoundTripAny ==
    precision # Some(1) =>
        /\ stage = "parsed_shown" => parsed # None
        /\ stage = "reshown" => retext = text

\* C4: for a byte count whose value in its unit has no more decimals than
\* the precision, the formatted text parses and formats to the same text.
C4_RoundTripExact ==
    ExactAt(bytes, MaxOf(precision)) =>
        /\ stage = "parsed_shown" => parsed # None
        /\ stage = "reshown" => retext = text

\* 1.5 kb and the like: a text with decimals that came back unchanged.
C4_Witness ==
    /\ stage = "reshown"
    /\ ExactAt(bytes, MaxOf(precision))
    /\ Printed(text).decimals > 0
    /\ retext = text

\* The integer N and the unit index of a text "<N><spaces><unit>".
IsIntegerWithUnit(t) ==
    /\ DigitRun(t, 1) >= 1
    /\ IsUnitText(Stripped(SubSeq(t, DigitRun(t, 1) + 1, Len(t))))

IntegerOf(t) == DecimalValue(SubSeq(t, 1, DigitRun(t, 1)))

UnitIndexOf(t) == UnitOfText(Stripped(SubSeq(t, DigitRun(t, 1) + 1, Len(t))))

C6_RejectsMalformed ==
    (/\ stage = "parsed_input"
     /\ \/ DigitRun(text, 1) = 0
        \/ ~IsUnitText(Stripped(SubSeq(text, NumberEnd(text) + 1, Len(text)))))
    => parsed = None

\* A number followed by something that is no unit.
C6_Witness ==
    /\ stage = "parsed_input"
    /\ DigitRun(text, 1) >= 1
    /\ ~IsUnitText(Stripped(SubSeq(text, NumberEnd(text) + 1, Len(text))))
    /\ parsed = None

C8_MinimalDecimals ==
    stage = "shown" =>
        LET k   == UnitIndex(bytes)
            p   == Printed(text)
            max == MaxOf(precision)
        IN  /\ ExactAt(bytes, 0) => p.decimals = 0
            /\ p.decimals <= max
            /\ p.decimals > 0 => p.last # "0"
            /\ Within(MulSmall(Times1024(
                          FromInt(p.mant * Pow10(max - p.decimals)), k), 2),
                      MulSmall(MulSmall(bytes, Pow10(max)), 2),
                      Times1024(FromInt(1), k))

(***************************************************************************)
(* MountPoint (src/src/storage.rs): one line of /proc/self/mountinfo.      *)
(***************************************************************************)
\* Iterator::nth
nth(items, n) == IF n + 1 <= Len(items) THEN Some(items[n + 1]) ELSE None

\* Iterator::skip
skip(items, n) == SubSeq(items, n + 1, Len(items))

\* str::parse::<usize>: decimal digits, after an optional '+'.
parse_usize(s) ==
    LET ds == IF s # <<>> /\ s[1] = "+" THEN Tail(s) ELSE s
    IN  IF ds # <<>> /\ \A i \in 1..Len(ds) : is_ascii_digit(ds[i])
        THEN Some(DecimalValue(ds))
        ELSE None

\* The ? operator followed by parse().ok().
parse_some(opt) == IF opt = None THEN None ELSE parse_usize(opt[1])

RECURSIVE filter_non_empty(_)
filter_non_empty(items) ==
    IF items = <<>> THEN <<>>
    ELSE IF items[1] = <<>> THEN filter_non_empty(Tail(items))
    ELSE <<items[1]>> \o filter_non_empty(Tail(items))

\* values() as PartitionEntry has it: the empty pieces filtered out.
values_non_empty(l) == filter_non_empty(split(l, <<" ">>))

\* MountPoint::values
values(l) == split(l, <<" ">>)

mount_id(l) == parse_some(nth(values(l), 0))

parent_id(l) == parse_some(nth(values(l), 1))

major_minor(l) == nth(values(l), 2)

major(l) ==
    IF major_minor(l) = None THEN None
    ELSE parse_some(nth(split(major_minor(l)[1], <<":">>), 0))

minor(l) ==
    IF major_minor(l) = None THEN None
    ELSE parse_some(nth(split(major_minor(l)[1], <<":">>), 1))

root(l) == nth(values(l), 3)

mount_point(l) == nth(values(l), 4)

mount_options(l) == nth(values(l), 5)

RECURSIVE take_while_not_dash(_)
take_while_not_dash(items) ==
    IF items = <<>> \/ items[1] = <<"-">> THEN <<>>
    ELSE <<items[1]>> \o take_while_not_dash(Tail(items))

\* The closure of optional_fields: the first two parts of opt split on ':'.
optional_field(opt) ==
    LET iters == split(opt, <<":">>)
    IN  <<iters[1], nth(iters, 1)>>

\* optional_fields skipping 5 values, as after_separator does.
optional_fields_skip_5(l) ==
    LET opts == take_while_not_dash(skip(values(l), 5))
    IN  [i \in 1..Len(opts) |-> optional_field(opts[i])]

optional_fields(l) ==
    LET opts == take_while_not_dash(skip(values(l), 6))
    IN  [i \in 1..Len(opts) |-> optional_field(opts[i])]

\* Iterator::skip_while(|&i| i != "-").
RECURSIVE skip_while_not_dash(_)
skip_while_not_dash(items) ==
    IF items = <<>> \/ Head(items) = <<"-">> THEN items
    ELSE skip_while_not_dash(Tail(items))

\* after_separator with the separator left in front.
after_separator_keep(l) == skip_while_not_dash(skip(values(l), 5))

after_separator(l) == skip(skip_while_not_dash(skip(values(l), 5)), 1)

filesystem_type(l) == nth(after_separator(l), 0)

mount_source(l) == nth(after_separator(l), 1)

super_options(l) == nth(after_separator(l), 2)

(***************************************************************************)
(* The mountinfo lines under test: one of a few beginnings, followed by up *)
(* to MaxTail more values, all joined by single spaces.                    *)
(***************************************************************************)
MaxTail == 4

LineHeads == {
    <<>>,
    << <<"7">>, <<"8">> >>,
    << <<"2", "6">>, <<"2", "9">>, <<"0", ":", "5">>, <<"/">>, <<"/", "d">>,
       <<"r", "w">> >>,
    << <<"2", "6">>, <<>>, <<"2", "9">>, <<"0", ":", "5">>, <<"/">>,
       <<"/", "d">> >>,
    << <<"x">>, <<"2", "9">>, <<"0", ":">>, <<"/">>, <<"/", "d">>, <<"-">> >>,
    << <<"2", "6">>, <<"2", "9">>, <<"a", ":", "5", ":", "7">>, <<"/">>,
       <<"/", "d">>, <<"r", "w">> >> }

TailValues == { <<"-">>, <<"s", ":", "2">>, <<"o">>, <<>>, <<"a", ":", "b", ":", "c">> }

MountLines ==
    { join(h \o t, <<" ">>) :
        h \in LineHeads,
        t \in UNION { [1..n -> TailValues] : n \in 0..MaxTail } }

InitMount ==
    /\ line \in MountLines
    /\ out = NoCall
    /\ KvIdle
    /\ SizeIdle
    /\ IoIdle

Answer(op, res) ==
    /\ out = NoCall
    /\ out' = [op |-> op, res |-> res]
    /\ UNCHANGED <<raw, sizeVars, line, ioVars>>

CallMountId == Answer("mount_id", mount_id(line))
CallParentId == Answer("parent_id", parent_id(line))
CallMajorMinor == Answer("major_minor", major_minor(line))
CallMajor == Answer("major", major(line))
CallMinor == Answer("minor", minor(line))
CallRoot == Answer("root", root(line))
CallMountPoint == Answer("mount_point", mount_point(line))
CallMountOptions == Answer("mount_options", mount_options(line))
CallOptionalFields == Answer("optional_fields", optional_fields(line))
CallFilesystemType == Answer("filesystem_type", filesystem_type(line))
CallMountSource == Answer("mount_source", mount_source(line))
CallSuperOptions == Answer("super_options", super_options(line))

NextMount ==
    \/ CallMountId
    \/ CallParentId
    \/ CallMajorMinor
    \/ CallMajor
    \/ CallMinor
    \/ CallRoot
    \/ CallMountPoint
    \/ CallMountOptions
    \/ CallOptionalFields
    \/ CallFilesystemType
    \/ CallMountSource
    \/ CallSuperOptions
    \/ DropResult

SpecMount == InitMount /\ [][NextMount]_vars

(***************************************************************************)
(* What the mountinfo claims say, by the positions of the spaces.          *)
(***************************************************************************)
\* Token i of the line, counted from 0, when the line has one.
Token(l, i) ==
    IF i + 1 <= PieceCount(l, " ") THEN Some(Piece(l, " ", i + 1)) ELSE None

\* The number a token spells, when it is there and spells one.
NumberOf(tok) ==
    IF /\ tok # None
       /\ tok[1] # <<>>
       /\ \A i \in 1..Len(tok[1]) : is_ascii_digit(tok[1][i])
    THEN Some(DecimalValue(tok[1]))
    ELSE None

\* Part i, counted from 0, of token 2 split on ':'.
DevicePart(l, i) ==
    IF Token(l, 2) = None \/ i + 1 > PieceCount(Token(l, 2)[1], ":") THEN None
    ELSE Some(Piece(Token(l, 2)[1], ":", i + 1))

\* C9: the accessors read the tokens 0 to 5 of the line split on every
\* space, major and minor the parts of token 2, and a token that is missing
\* or no number gives None.
C9_Positional ==
    /\ out.op = "mount_id" => out.res = NumberOf(Token(line, 0))
    /\ out.op = "parent_id" => out.res = NumberOf(Token(line, 1))
    /\ out.op = "major_minor" => out.res = Token(line, 2)
    /\ out.op = "major" => out.res = NumberOf(DevicePart(line, 0))
    /\ out.op = "minor" => out.res = NumberOf(DevicePart(line, 1))
    /\ out.op = "root" => out.res = Token(line, 3)
    /\ out.op = "mount_point" => out.res = Token(line, 4)
    /\ out.op = "mount_options" => out.res = Token(line, 5)

\* Two spaces after the mount id: parent_id reads the empty token and is
\* None, although the line goes on with a number.
C9_Witness ==
    /\ out.op = "parent_id"
    /\ Token(line, 1) = Some(<<>>)
    /\ NumberOf(Token(line, 2)) = Some(29)
    /\ out.res = None

\* The last token that optional_fields reads: the one before the first "-"
\* from position 6 on, or the last of the line.
OptionalEnd(l) ==
    LET dashes == {i \in 6..(PieceCount(l, " ") - 1) : Token(l, i) = Some(<<"-">>)}
    IN  IF dashes = {} THEN PieceCount(l, " ") - 1 ELSE Min(dashes) - 1

\* C10: optional_fields gives one pair for each token from position 6 up
\* to the first "-" token, in order: (tag, None) for a token with no ':',
\* (tag, Some(value)) for tag:value.
C10_OptionalFields ==
    out.op = "optional_fields" =>
        /\ Len(out.res) = IF OptionalEnd(line) < 6 THEN 0 ELSE OptionalEnd(line) - 5
        /\ \A j \in 1..Len(out.res) :
              LET t      == Token(line, 5 + j)[1]
                  colons == {i \in 1..Len(t) : t[i] = ":"}
              IN  /\ colons = {} => out.res[j] = <<t, None>>
                  /\ Cardinality(colons) = 1 =>
                        out.res[j] = <<SubSeq(t, 1, Min(colons) - 1),
                                       Some(SubSeq(t, Min(colons) + 1, Len(t)))>>
                  /\ colons # {} => out.res[j][1] = SubSeq(t, 1, Min(colons) - 1)

\* shared:2 and a bare tag in front of the separator.
C10_Witness ==
    /\ out.op = "optional_fields"
    /\ Token(line, 8) = Some(<<"-">>)
    /\ out.res = << <<<<"s">>, Some(<<"2">>)>>, <<<<"o">>, None>> >>

\* The position of the separator: the first "-" token from position 5 on,
\* 0 when there is none.
Separator(l) ==
    LET dashes == {i \in 5..(PieceCount(l, " ") - 1) : Token(l, i) = Some(<<"-">>)}
    IN  IF dashes = {} THEN 0 ELSE Min(dashes)

AfterSeparatorOps ==
    << "filesystem_type", "mount_source", "super_options" >>

RECURSIVE consume_first_line(_, _)
consume_first_line(t, p) ==
    IF p > Len(t) THEN p
    ELSE IF t[p] = "\n" THEN p + 1
    ELSE consume_first_line(t, p + 1)

\* while_byte_fn(|&b| b != b':'): the position of the next ':', or the end.
RECURSIVE while_not_colon(_, _)
while_not_colon(t, p) ==
    IF p > Len(t) \/ t[p] = ":" THEN p ELSE while_not_colon(t, p + 1)

\* The loop of raids() with a single newline ending the record.
RECURSIVE record_loop_one_newline(_, _, _, _)
record_loop_one_newline(t, start, p, one) ==
    IF p > Len(t)
    THEN [raw |-> trim(SubSeq(t, start, Len(t))), pos |-> p]
    ELSE IF t[p] = "\n"
    THEN [raw |-> trim(SubSeq(t, start, p - 1)), pos |-> p + 1]
    ELSE record_loop_one_newline(t, start, p + 1, one)

\* The loop of raids(): the record started at start is read from p on; one
\* says that the byte before p was a newline.
RECURSIVE record_loop(_, _, _, _)
record_loop(t, start, p, one) ==
    IF one /\ p <= Len(t) /\ t[p] = "\n"
    THEN [raw |-> trim(SubSeq(t, start, p - 1)), pos |-> p + 1]
    ELSE IF one THEN record_loop(t, start, p, FALSE)
    ELSE IF p > Len(t)
    THEN [raw |-> trim(SubSeq(t, start, Len(t))), pos |-> p]
    ELSE record_loop(t, start, p + 1, t[p] = "\n")

UnusedDevices ==
    <<"u", "n", "u", "s", "e", "d", " ", "d", "e", "v", "i", "c", "e", "s">>

\* One call of the closure of raids() with the first line consumed: None,
\* or the Raid and the position the parser is left at.
raids_closure(t, p) ==
    IF p > Len(t) THEN None
    ELSE LET c   == while_not_colon(t, p)
             key == trim(SubSeq(t, p, c - 1))
         IN  IF key = UnusedDevices THEN None
             ELSE LET start == IF c <= Len(t) THEN c + 1 ELSE c
                      rec   == record_loop(t, start, start, FALSE)
                  IN  Some([name |-> key, raw |-> rec.raw, pos |-> rec.pos])

\* parse_iter: the closure is called until it returns None.
RECURSIVE parse_iter(_, _)
parse_iter(t, p) ==
    LET r == raids_closure(t, p)
    IN  IF r = None THEN <<>>
        ELSE <<[name |-> r[1].name, raw |-> r[1].raw]>> \o parse_iter(t, r[1].pos)

raids(buf) ==
    LET t == trim(buf)
    IN  parse_iter(t, consume_first_line(t, 1))

\* Raid::values: the lines of the record, trimmed and split on ' '.
Raid_values(r) ==
    LET ls == split(r.raw, <<"\n">>)
    IN  [i \in 1..Len(ls) |-> split(trim(ls[i]), <<" ">>)]

\* Raid::line: the values of line n, none when the line is missing.
Raid_line(r, n) ==
    IF nth(Raid_values(r), n) = None THEN <<>> ELSE nth(Raid_values(r), n)[1]

\* str::split(&['[', ']'][..])
RECURSIVE split_brackets(_)
split_brackets(s) ==
    LET cuts == {i \in 1..Len(s) : s[i] \in {"[", "]"}}
    IN  IF cuts = {} THEN <<s>>
        ELSE <<SubSeq(s, 1, Min(cuts) - 1)>>
                 \o split_brackets(SubSeq(s, Min(cuts) + 1, Len(s)))

\* The closure of devices(): (index, name) of name[index], or None.
device(dev) ==
    LET parts == split_brackets(dev)
    IN  IF parse_some(nth(parts, 1)) = None THEN None
        ELSE Some(<<parse_some(nth(parts, 1))[1], parts[1]>>)

devices(r) ==
    LET devs == skip(Raid_line(r, 0), 2)
    IN  filter_some([i \in 1..Len(devs) |-> device(devs[i])])

\* find(|l| l.starts_with('['))
RECURSIVE find_bracket(_)
find_bracket(items) ==
    IF items = <<>> THEN None
    ELSE IF Head(items) # <<>> /\ Head(items)[1] = "[" THEN Some(Head(items))
    ELSE find_bracket(Tail(items))

strip_prefix(s, c) == IF s # <<>> /\ s[1] = c THEN Some(Tail(s)) ELSE None

strip_suffix(s, c) ==
    IF s # <<>> /\ s[Len(s)] = c THEN Some(SubSeq(s, 1, Len(s) - 1)) ELSE None

\* used_devices reading the part after the '/'.
used_devices_second(r) ==
    LET tok == find_bracket(Raid_line(r, 1))
    IN  IF tok = None THEN None
        ELSE LET part == nth(split(tok[1], <<"/">>), 1)
             IN  IF part = None THEN None
                 ELSE parse_some(strip_suffix(part[1], "]"))

used_devices(r) ==
    LET tok == find_bracket(Raid_line(r, 1))
    IN  IF tok = None THEN None
        ELSE LET part == nth(split(tok[1], <<"/">>), 0)
             IN  IF part = None THEN None
                 ELSE parse_some(strip_prefix(part[1], "["))

ideal_devices(r) ==
    LET tok == find_bracket(Raid_line(r, 1))
    IN  IF tok = None THEN None
        ELSE LET part == nth(split(tok[1], <<"/">>), 1)
             IN  IF part = None THEN None
                 ELSE parse_some(strip_suffix(part[1], "]"))

(***************************************************************************)
(* The mdstat buffers under test: the banner line and its newline, then up *)
(* to MaxBlocks blocks with one or two newlines between them, and the      *)
(* newline that ends the file.                                             *)
(***************************************************************************)
MaxBlocks == 3

Banner == <<"P", " ", ":", " ", "[", "r", "]">>

MdBlocks == {
    <<"m", "0", " ", ":", " ", "a", " ", "r", "1", " ", "s", "b", "[", "1",
      "]", " ", "s", "a", "[", "0", "]", "\n", " ", " ", "6", " ", "b",
      " ", "[", "2", "/", "2", "]", " ", "[", "U", "U", "]">>,
    <<"m", "1", " ", ":", " ", "a", " ", "r", "1", " ", "s", "a", "[", "0",
      "]", "\n", " ", "6", " ", "b", " ", "[", "2", "/", "1", "]", " ",
      "[", "U", "_", "]">>,
    <<"m", "2", ":", "a", " ", "r", " ", "s", "[", "x", "]", " ", "t", "[",
      "3", "]", "(", "F", ")", "\n", " ", "[", "x", "/", "2", "]", " ",
      "[", "U", "U", "]">>,
    <<"m", "4", " ", ":", "a", "\n", "8", " ", "b">>,
    <<"u", "n", "u", "s", "e", "d", " ", "d", "e", "v", "i", "c", "e", "s",
      ":", " ", "<", "n", "o", "n", "e", ">">>,
    <<"j", "u", "n", "k">> }

MdGaps == { <<"\n">>, <<"\n", "\n">> }

RECURSIVE concat(_)
concat(parts) ==
    IF parts = <<>> THEN <<>> ELSE Head(parts) \o concat(Tail(parts))

MdBuffers ==
    UNION { { Banner \o concat([i \in 1..n |->
                  (IF i = 1 THEN <<"\n">> ELSE gaps[i]) \o blocks[i]]) \o <<"\n">> :
                gaps \in [2..n -> MdGaps], blocks \in [1..n -> MdBlocks] } :
            n \in 0..MaxBlocks }

InitRaid ==
    /\ raw \in MdBuffers
    /\ out = NoCall
    /\ SizeIdle
    /\ IoIdle
    /\ MountIdle

CallRaids == Answer("raids", raids(raw))

\* An accessor is called on one of the records that raids() yields.
AnswerOf(op, r, res) ==
    /\ out = NoCall
    /\ out' = [op |-> op, rec |-> r, res |-> res]
    /\ UNCHANGED <<raw, sizeVars, line, ioVars>>

CallDevices ==
    \E n \in 1..Len(raids(raw)) :
        AnswerOf("devices", raids(raw)[n], devices(raids(raw)[n]))

CallUsedDevices ==
    \E n \in 1..Len(raids(raw)) :
        AnswerOf("used_devices", raids(raw)[n], used_devices(raids(raw)[n]))

CallIdealDevices ==
    \E n \in 1..Len(raids(raw)) :
        AnswerOf("ideal_devices", raids(raw)[n], ideal_devices(raids(raw)[n]))

NextRaid ==
    \/ CallRaids
    \/ CallDevices
    \/ CallUsedDevices
    \/ CallIdealDevices
    \/ DropResult

SpecRaid == InitRaid /\ [][NextRaid]_vars

(***************************************************************************)
(* What the mdstat claims say, by the positions of the newlines.           *)
(***************************************************************************)
\* The text after the first line of the trimmed buffer.
MdBody(buf) ==
    LET t   == Stripped(buf)
        nls == {i \in 1..Len(t) : t[i] = "\n"}
    IN  IF nls = {} THEN <<>> ELSE SubSeq(t, Min(nls) + 1, Len(t))

\* The texts between the pairs of consecutive newlines, left to right.
RECURSIVE BlockTexts(_)
BlockTexts(b) ==
    LET br == {i \in 1..(Len(b) - 1) : b[i] = "\n" /\ b[i + 1] = "\n"}
    IN  IF br = {} THEN <<b>>
        ELSE <<SubSeq(b, 1, Min(br) - 1)>>
                 \o BlockTexts(SubSeq(b, Min(br) + 2, Len(b)))

HasColon(b) == \E i \in 1..Len(b) : b[i] = ":"

BlockKey(b) ==
    IF HasColon(b) THEN Stripped(SubSeq(b, 1, FirstColon(b) - 1)) ELSE Stripped(b)

\* The blocks in front of the first one whose key is "unused devices".
ListedBlocks(buf) ==
    LET bs   == SelectSeq(BlockTexts(MdBody(buf)), LAMBDA b : Stripped(b) # <<>>)
        ends == {j \in 1..Len(bs) : BlockKey(bs[j]) = UnusedDevices}
    IN  IF ends = {} THEN bs ELSE SubSeq(bs, 1, Min(ends) - 1)

\* C12: for a buffer whose blocks all have a ':', raids() yields one record
\* for each block between the first line and the "unused devices" key, in
\* file order; a block ends only at two newlines in a row or at the end of
\* the input, and the name is the trimmed text before the first ':'.
C12_OneRecordPerBlock ==
    (/\ out.op = "raids"
     /\ \A j \in 1..Len(ListedBlocks(raw)) : HasColon(ListedBlocks(raw)[j])) =>
        /\ Len(out.res) = Len(ListedBlocks(raw))
        /\ \A j \in 1..Len(out.res) :
              LET b == ListedBlocks(raw)[j]
              IN  /\ out.res[j].name = BlockKey(b)
                  /\ out.res[j].raw = Stripped(SubSeq(b, FirstColon(b) + 1, Len(b)))

\* Two arrays in front of "unused devices", the second with its two lines.
C12_Witness ==
    /\ out.op = "raids"
    /\ Len(BlockTexts(MdBody(raw))) = 3
    /\ Len(out.res) = 2
    /\ out.res[1].name = <<"m", "1">>
    /\ out.res[2].name = <<"m", "0">>
    /\ PieceCount(out.res[2].raw, "\n") = 2

\* The first token that starts with '[' on the second line of a record, an
\* Option.
BracketToken(r) ==
    IF PieceCount(r.raw, "\n") < 2 THEN None
    ELSE LET l    == Stripped(Piece(r.raw, "\n", 2))
             toks == {j \in 1..PieceCount(l, " ") :
                         /\ Piece(l, " ", j) # <<>>
                         /\ Piece(l, " ", j)[1] = "["}
         IN  IF toks = {} THEN None ELSE Some(Piece(l, " ", Min(toks)))

\* C13: with [n/m] the first token of the second line that starts with
\* '[', used_devices is n and ideal_devices is m; with no such token, or
\* with a part that is no number, the accessor is None.
C13_UsedAndIdeal ==
    out.op \in {"used_devices", "ideal_devices"} =>
        LET tok == BracketToken(out.rec)
        IN  /\ tok = None => out.res = None
            /\ (tok # None /\ PieceCount(tok[1], "/") = 1) => out.res = None
            /\ (/\ tok # None
                /\ PieceCount(tok[1], "/") = 2
                /\ tok[1][Len(tok[1])] = "]") =>
                  LET n == NumberOf(Some(Tail(Piece(tok[1], "/", 1))))
                      m == LET p == Piece(tok[1], "/", 2)
                           IN  NumberOf(Some(SubSeq(p, 1, Len(p) - 1)))
                  IN  out.res = IF out.op = "used_devices" THEN n ELSE m

\* [2/1] on the second line: one ideal device.
C13_Witness ==
    /\ out.op = "ideal_devices"
    /\ BracketToken(out.rec) = Some(<<"[", "2", "/", "1", "]">>)
    /\ out.res = Some(1)

\* C14: used_devices() is the number of devices that devices() yields.
C14_UsedEqualsListed ==
    (out.op = "devices" /\ used_devices(out.rec) # None) =>
        used_devices(out.rec) = Some(Len(out.res))

(***************************************************************************)
(* Stat and CpuStat (src/src/system.rs).                                   *)
(*                                                                         *)
(* A usize counter is held as its base-1024 limbs, as a byte count is, so  *)
(* that the counters keep their 64 bits.                                   *)
(***************************************************************************)

\* str::lines: the pieces between the newlines, without a last empty piece
\* and without the '\r' in front of a newline.
lines(s) ==
    LET ps   == split(s, <<"\n">>)
        kept == IF ps[Len(ps)] = <<>> THEN SubSeq(ps, 1, Len(ps) - 1) ELSE ps
    IN  [i \in 1..Len(kept) |->
            IF kept[i] # <<>> /\ kept[i][Len(kept[i])] = "\r"
            THEN SubSeq(kept[i], 1, Len(kept[i]) - 1)
            ELSE kept[i]]

\* str::split_once(' ')
split_once(s) ==
    LET i == find_from(s, <<" ">>, 1)
    IN  IF i = 0 THEN None
        ELSE Some(<<SubSeq(s, 1, i - 1), SubSeq(s, i + 1, Len(s))>>)

\* The closure of Stat::values: the key and the numbers of a line.
stat_line(s) ==
    IF split_once(s) = None THEN None
    ELSE LET key  == split_once(s)[1][1]
             vals == split(split_once(s)[1][2], <<" ">>)
         IN  Some(<<key, filter_some([i \in 1..Len(vals) |-> parse_usize(vals[i])])>>)

Stat_values(buf) ==
    LET ls == lines(trim(buf))
    IN  filter_some([i \in 1..Len(ls) |-> stat_line(trim(ls[i]))])

\* iter.next().unwrap_or(0), for the n-th call of next
next_or_0(vs, n) == IF n <= Len(vs) THEN FromInt(vs[n]) ELSE <<>>

\* impl FromIterator<usize> for CpuStat
from_iter(vs) ==
    [user    |-> next_or_0(vs, 1),
     nice    |-> next_or_0(vs, 2),
     system  |-> next_or_0(vs, 3),
     idle    |-> next_or_0(vs, 4),
     iowait  |-> next_or_0(vs, 5),
     irq     |-> next_or_0(vs, 6),
     softirq |-> next_or_0(vs, 7)]

\* find with the key taken for a prefix of the line's key.
RECURSIVE find_key_prefix(_, _)
find_key_prefix(kvs, key) ==
    IF kvs = <<>> THEN None
    ELSE IF /\ Len(kvs[1][1]) >= Len(key)
            /\ SubSeq(kvs[1][1], 1, Len(key)) = key
    THEN Some(from_iter(kvs[1][2]))
    ELSE find_key_prefix(Tail(kvs), key)

\* find(|(k, _)| *k == key).map(|(_, v)| v.collect())
RECURSIVE find_key(_, _)
find_key(kvs, key) ==
    IF kvs = <<>> THEN None
    ELSE IF kvs[1][1] = key THEN Some(from_iter(kvs[1][2]))
    ELSE find_key(Tail(kvs), key)

cpu(buf) == find_key(Stat_values(buf), <<"c", "p", "u">>)

cpu_nth(buf, n) == find_key(Stat_values(buf), <<"c", "p", "u">> \o IntToStr(n))

(***************************************************************************)
(* The stat buffers under test: up to MaxStatLines lines, each ended by a  *)
(* newline.                                                                *)
(***************************************************************************)
MaxStatLines == 3

StatLines == {
    <<"c", "p", "u", " ", " ", "1", "0", " ", "2", " ", "3", " ", "4", "0",
      " ", "5", " ", "6", " ", "7", " ", "8", " ", "9", " ", "0">>,
    <<"c", "p", "u", " ", "1", " ", "2", " ", "3">>,
    <<"c", "p", "u", "0", " ", "4", " ", "x", " ", "5", " ", "6">>,
    <<" ", "c", "p", "u", "1", " ", "7", " ">>,
    <<"c", "p", "u">>,
    <<"i", "n", "t", "r", " ", "9", " ", "9">>,
    <<"c", "p", "u", "1", "0", " ", "3">> }

StatBuffers ==
    UNION { { concat([i \in 1..n |-> ls[i] \o <<"\n">>]) : ls \in [1..n -> StatLines] } :
            n \in 0..MaxStatLines }

CpuNumbers == {0, 1, 10}

InitStat ==
    /\ raw \in StatBuffers
    /\ out = NoCall
    /\ SizeIdle
    /\ IoIdle
    /\ MountIdle

CallCpu == Answer("cpu", cpu(raw))

CallCpuNth ==
    \E n \in CpuNumbers :
        /\ out = NoCall
        /\ out' = [op |-> "cpu_nth", n |-> n, res |-> cpu_nth(raw, n)]
        /\ UNCHANGED <<raw, sizeVars, line, ioVars>>

NextStat ==
    \/ CallCpu
    \/ CallCpuNth
    \/ DropResult

SpecStat == InitStat /\ [][NextStat]_vars

(***************************************************************************)
(* What the stat claims say, by the positions of the newlines and spaces.  *)
(***************************************************************************)
\* The key of a line: the text in front of its first space.
HasSpace(l) == \E i \in 1..Len(l) : l[i] = " "

FirstSpace(l) == Min({i \in 1..Len(l) : l[i] = " "})

StatLine(t, j) == Stripped(Piece(Stripped(t), "\n", j))

KeyedLines(t, key) ==
    {j \in 1..PieceCount(Stripped(t), "\n") :
        /\ HasSpace(StatLine(t, j))
        /\ SubSeq(StatLine(t, j), 1, FirstSpace(StatLine(t, j)) - 1) = key}

\* The numeric tokens after the key of a line, in order.
NumbersOf(l) ==
    LET rest == SubSeq(l, FirstSpace(l) + 1, Len(l))
        nums == {j \in 1..PieceCount(rest, " ") :
                    NumberOf(Some(Piece(rest, " ", j))) # None}
    IN  [k \in 1..Cardinality(nums) |->
            NumberOf(Some(Piece(rest, " ", Kth(nums, k))))[1]]

CounterNames ==
    << "user", "nice", "system", "idle", "iowait", "irq", "softirq" >>

ExpectedCpu(t, key) ==
    IF KeyedLines(t, key) = {} THEN None
    ELSE LET ns == NumbersOf(StatLine(t, Min(KeyedLines(t, key))))
         IN  Some([f \in {CounterNames[k] : k \in 1..7} |->
                      LET k == CHOOSE k \in 1..7 : CounterNames[k] = f
                      IN  IF k <= Len(ns) THEN FromInt(ns[k]) ELSE <<>>])

\* C15: cpu() gives the counters of the first line with the key "cpu" and
\* cpu_nth(N) those of the first line with the key "cpuN": the numbers
\* after the key in order, 0 for the missing ones, the eighth and later
\* ignored, and None when no line has the key.
C15_CpuCounters ==
    /\ out.op = "cpu" => out.res = ExpectedCpu(raw, <<"c", "p", "u">>)
    /\ out.op = "cpu_nth" =>
          out.res = ExpectedCpu(raw, <<"c", "p", "u">> \o
                        (IF out.n = 10 THEN <<"1", "0">>
                         ELSE IF out.n = 1 THEN <<"1">> ELSE <<"0">>))

\* A short "cpu" line after other lines: the missing counters are 0.
C15_Witness ==
    /\ out.op = "cpu"
    /\ out.res # None
    /\ Min(KeyedLines(raw, <<"c", "p", "u">>)) = 3
    /\ out.res[1].system = <<3>>
    /\ out.res[1].idle = <<>>

(***************************************************************************)
(* CpuStat::usage (src/src/system.rs).                                     *)
(*                                                                         *)
(* The - and + of usize panic on overflow in a build with overflow checks  *)
(* (the default of a debug build) and wrap modulo 2^64 in one without (the *)
(* default of a release build): checks says which build runs.              *)
(***************************************************************************)
TwoTo53 == <<0, 0, 0, 0, 0, 8>>

TwoTo64 == <<0, 0, 0, 0, 0, 0, 16>>

RECURSIVE Pow2(_)
Pow2(n) == IF n = 0 THEN 1 ELSE 2 * Pow2(n - 1)

\* a - b for a >= b, limb by limb with a borrow.
RECURSIVE SubBorrow(_, _, _)
SubBorrow(a, b, c) ==
    IF a = <<>> THEN <<>>
    ELSE LET y == IF b = <<>> THEN 0 ELSE b[1]
             t == a[1] - y - c
         IN  <<t % Base>> \o SubBorrow(Tail(a), IF b = <<>> THEN b ELSE Tail(b),
                                       IF t < 0 THEN 1 ELSE 0)

BigSub(a, b) == Canon(SubBorrow(a, b, 0))

\* A number modulo 2^64.
wrapping(x) ==
    IF Len(x) < 7 THEN x
    ELSE Canon(SubSeq(x, 1, 6) \o <<x[7] % 16>>)

Fields == {"user", "nice", "system", "idle", "iowait", "irq", "softirq"}

\* self.f - other.f of usize without overflow checks.
wrapping_sub(a, b) ==
    IF BigLt(a, b) THEN BigSub(BigAdd(a, TwoTo64), b) ELSE BigSub(a, b)

\* impl Sub for CpuStat, where no field panics.
sub(self, other) == [f \in Fields |-> wrapping_sub(self[f], other[f])]

sub_overflows(self, other) == \E f \in Fields : BigLt(self[f], other[f])

\* A sum of usize terms, left to right: the wrapped sum and whether a +
\* overflowed.
RECURSIVE sum(_)
sum(terms) ==
    IF terms = <<>> THEN [val |-> <<>>, overflow |-> FALSE]
    ELSE LET front == sum(SubSeq(terms, 1, Len(terms) - 1))
             exact == BigAdd(front.val, terms[Len(terms)])
         IN  [val |-> wrapping(exact),
              overflow |-> front.overflow \/ ~BigLt(exact, TwoTo64)]

total_time(c) ==
    sum(<<c.user, c.nice, c.system, c.idle, c.iowait, c.irq, c.softirq>>)

\* active_time with idle and iowait counted in.
active_time_all(c) ==
    sum(<<c.user, c.nice, c.system, c.idle, c.iowait, c.irq, c.softirq>>)

active_time(c) == sum(<<c.user, c.nice, c.system, c.irq, c.softirq>>)

\* usize as f64: exact below 2^53, above it rounded to 53 bits, a half to
\* the even neighbour.
as_f64(v) ==
    IF BigLt(v, TwoTo53) THEN v
    ELSE LET s    == Min({k \in 1..11 : BigLt(v, MulSmall(TwoTo53, Pow2(k)))})
             qr   == DivRemSmall(v, Pow2(s))
             q    == Canon(qr.q)
             odd  == q # <<>> /\ q[1] % 2 = 1
             up   == 2 * qr.r > Pow2(s) \/ (2 * qr.r = Pow2(s) /\ odd)
         IN  MulSmall(IF up THEN BigAdd(q, <<1>>) ELSE q, Pow2(s))

Panic == [kind |-> "panic"]

\* CpuStat::usage: the f64 returned is held as the ratio it is the
\* quotient of.
usage(self, previous, checks) ==
    LET diff   == sub(self, previous)
        total  == total_time(diff)
        active == active_time(diff)
    IN  IF checks /\ (sub_overflows(self, previous) \/ total.overflow)
        THEN Panic
        ELSE IF total.val = <<>>
        THEN [kind |-> "value", diff |-> diff, res |-> [num |-> <<>>, den |-> <<1>>]]
        ELSE IF checks /\ active.overflow THEN Panic
        ELSE [kind |-> "value", diff |-> diff,
              res |-> [num |-> as_f64(active.val), den |-> as_f64(total.val)]]

\* The samples under test.
Samples ==
    { [user |-> FromInt(u), nice |-> <<1>>, system |-> <<2>>, idle |-> FromInt(i),
       iowait |-> FromInt(w), irq |-> <<>>, softirq |-> FromInt(q)] :
        u \in {0, 3, 7}, i \in {0, 5}, w \in {0, 2}, q \in {0, 1} }

InitUsage ==
    /\ KvIdle
    /\ out = NoCall
    /\ SizeIdle
    /\ IoIdle
    /\ MountIdle

CallUsage ==
    \E self \in Samples, previous \in Samples, checks \in BOOLEAN :
        /\ out = NoCall
        /\ out' = [op |-> "usage", self |-> self, previous |-> previous,
                   checks |-> checks, ret |-> usage(self, previous, checks)]
        /\ UNCHANGED <<raw, sizeVars, line, ioVars>>

NextUsage ==
    \/ CallUsage
    \/ DropResult

SpecUsage == InitUsage /\ [][NextUsage]_vars

\* The componentwise difference of two samples with previous <= self.
Delta(self, previous) == [f \in Fields |-> ToInt(self[f]) - ToInt(previous[f])]

ActiveOf(d) == d.user + d.nice + d.system + d.irq + d.softirq

TotalOf(d) == ActiveOf(d) + d.idle + d.iowait

\* C16: with previous <= self in every counter, usage is the active time
\* of the difference over its total time, idle and iowait not counted as
\* active; it lies in [0, 1], and it is 0 when the total time is 0.
C16_UsageIsActiveShare ==
    (/\ out.op = "usage"
     /\ \A f \in Fields : ToInt(out.previous[f]) <= ToInt(out.self[f])) =>
        LET d == Delta(out.self, out.previous)
        IN  /\ out.ret.kind = "value"
            /\ TotalOf(d) = 0 => out.ret.res = [num |-> <<>>, den |-> <<1>>]
            /\ TotalOf(d) # 0 =>
                  /\ out.ret.res = [num |-> FromInt(ActiveOf(d)),
                                    den |-> FromInt(TotalOf(d))]
                  /\ BigLe(out.ret.res.num, out.ret.res.den)

\* 4 of 11 ticks were active.
C16_Witness ==
    /\ out.op = "usage"
    /\ \A f \in Fields : ToInt(out.previous[f]) <= ToInt(out.self[f])
    /\ Delta(out.self, out.previous).idle = 5
    /\ out.ret.kind = "value"
    /\ out.ret.res = [num |-> <<4>>, den |-> <<11>>]

\* C17: a counter of the previous sample above that of the current one
\* makes the difference of that field 0; the subtraction neither wraps
\* nor panics.
C17_DeltaSaturates ==
    out.op = "usage" =>
        /\ out.ret.kind # "panic"
        /\ \A f \in Fields :
              ToInt(out.self[f]) < ToInt(out.previous[f]) => out.ret.diff[f] = <<>>

(***************************************************************************)
(* Stat::read and Stat::reload (src/src/system.rs), with the pseudo-files  *)
(* they open.  The kernel rewrites the files between the calls.            *)
(***************************************************************************)
LoadAvgText ==
    <<"0", ".", "5", " ", "0", ".", "4", " ", "0", ".", "3", " ", "1", "/",
      "9", " ", "7", "7", "\n">>

StatTexts == { ls \o <<"\n">> : ls \in StatLines }

ProcFiles ==
    { [NoFiles EXCEPT !["/proc/stat"] = s, !["/proc/loadavg"] = l] :
        s \in {None} \cup {Some(t) : t \in StatTexts},
        l \in {None, Some(LoadAvgText)} }

InitProc ==
    /\ files \in ProcFiles
    /\ reads = <<>>
    /\ call = NotCalled
    /\ bios = None
    /\ facade = "none"
    /\ last = None
    /\ KvIdle
    /\ out = NoCall
    /\ SizeIdle
    /\ MountIdle

\* fs::read_to_string(Self::path())?: the Stat is made of the file's text.
Stat_read ==
    /\ out = NoCall
    /\ reads' = <<Stat_path>>
    /\ IF files[Stat_path] = None
       THEN /\ out' = [op |-> "Stat::read", res |-> "Err"]
            /\ raw' = raw
       ELSE /\ out' = [op |-> "Stat::read", res |-> "Ok"]
            /\ raw' = files[Stat_path][1]
    /\ UNCHANGED <<sizeVars, line, files, call, bios, facade, last>>

\* read_to_string_mut: the buffer is cleared, then filled from the file.
Stat_reload ==
    /\ out = NoCall
    /\ reads' = <<Stat_path>>
    /\ IF files[Stat_path] = None
       THEN /\ out' = [op |-> "Stat::reload", res |-> "Err"]
            /\ raw' = <<>>
       ELSE /\ out' = [op |-> "Stat::reload", res |-> "Ok"]
            /\ raw' = files[Stat_path][1]
    /\ UNCHANGED <<sizeVars, line, files, call, bios, facade, last>>

\* The kernel rewrites its files.
KernelWrites ==
    /\ out = NoCall
    /\ files' \in ProcFiles
    /\ files' # files
    /\ UNCHANGED <<raw, sizeVars, line, out, reads, call, bios, facade, last>>

NextProc ==
    \/ Stat_read
    \/ Stat_reload
    \/ CallCpu
    \/ KernelWrites
    \/ DropResult

SpecProc == InitProc /\ [][NextProc]_vars

\* C18: Stat::read and Stat::reload open /proc/stat, and after a
\* successful call cpu() is that of the 'cpu' line of /proc/stat.
C18_ReadsProcStat ==
    out.op \in {"Stat::read", "Stat::reload"} =>
        /\ reads = <<"/proc/stat">>
        /\ (out.res = "Ok" /\ files["/proc/stat"] # None) =>
              cpu(raw) = cpu(files["/proc/stat"][1])

(***************************************************************************)
(* Bios (src/src/bios/mod.rs, src/src/bios/low_level.rs).                  *)
(*                                                                         *)
(* A byte is a number in 0..255 and a file or slice a sequence of bytes.   *)
(* Bios::read is taken in the steps between its file operations; call      *)
(* holds the position and the locals.                                      *)
(***************************************************************************)
ANCHOR_STRING == <<95, 83, 77, 51, 95>>

ENTRY_POINT_MIN_LEN == 5 + 1 + 1 + 1 + 1 + 1 + 1 + 1 + 4 + 8

STRUCTURE_HEADER_LEN == 1 + 1 + 2

BIOS_INFO_MIN_LEN == 1 + 1 + 2 + 1 + 1 + 4 + 0 + 1 + 1 + 1 + 1

SYSTEM_INFO_MIN_LEN == 1 + 1 + 1 + 1 + 16 + 1 + 1 + 1

\* read_le_u8, read_le_u16, read_le_u32, read_le_u64 of the bytes read.
RECURSIVE le(_)
le(bs) == IF bs = <<>> THEN 0 ELSE bs[1] + 256 * le(Tail(bs))

\* Bytes: the reads of the given widths, front to back.  A read past the
\* end of the slice panics.
RECURSIVE read_fields(_, _, _)
read_fields(buf, pos, widths) ==
    IF widths = <<>> THEN [ok |-> TRUE, vals |-> <<>>]
    ELSE IF pos + widths[1] - 1 > Len(buf) THEN [ok |-> FALSE, vals |-> <<>>]
    ELSE LET rest == read_fields(buf, pos + widths[1], Tail(widths))
         IN  [ok |-> rest.ok,
              vals |-> <<SubSeq(buf, pos, pos + widths[1] - 1)>> \o rest.vals]

\* The anchor test left out.
anchor_unchecked(buf) == TRUE

\* bytes.read(ANCHOR_STRING.len()) != ANCHOR_STRING, negated
anchor_matches(buf) == SubSeq(buf, 1, Len(ANCHOR_STRING)) = ANCHOR_STRING

\* The EntryPoint made of the 24 bytes read; table_addr, a u64, is held as
\* its 8 bytes.
EntryPoint_fields(buf) ==
    LET v == read_fields(buf, Len(ANCHOR_STRING) + 1, <<1, 1, 1, 1, 1, 1, 1, 4, 8>>).vals
    IN  [checksum |-> le(v[1]), len |-> le(v[2]), major |-> le(v[3]),
         minor |-> le(v[4]), docrev |-> le(v[5]), revision |-> le(v[6]),
         reserved |-> le(v[7]), table_max |-> le(v[8]), table_addr |-> v[9]]

Err(e) == [op |-> "Bios::read", res |-> "Err", err |-> e]

\* EntryPoint::read up to the end of its file block: the file is opened
\* and ENTRY_POINT_MIN_LEN bytes are read from it.
EntryPoint_read_file ==
    /\ out = NoCall
    /\ call.pc = "idle"
    /\ reads' = <<ENTRY_POINT_PATH>>
    /\ IF files[ENTRY_POINT_PATH] = None
       THEN out' = Err("EntryPointNotFound") /\ call' = call
       ELSE IF Len(files[ENTRY_POINT_PATH][1]) < ENTRY_POINT_MIN_LEN
       THEN out' = Err("EntryPointMalformed") /\ call' = call
       ELSE /\ out' = out
            /\ call' = [pc |-> "anchor",
                        buf |-> SubSeq(files[ENTRY_POINT_PATH][1], 1, ENTRY_POINT_MIN_LEN)]
    /\ UNCHANGED <<raw, sizeVars, line, files, bios, facade, last>>

\* EntryPoint::read from the anchor test on.
EntryPoint_read_check ==
    /\ call.pc = "anchor"
    /\ IF anchor_matches(call.buf)
       THEN /\ call' = [pc |-> "structures", entry_point |-> EntryPoint_fields(call.buf)]
            /\ out' = out
       ELSE /\ call' = NotCalled
            /\ out' = Err("AnchorStringIncorrect")
    /\ UNCHANGED <<raw, sizeVars, line, files, reads, bios, facade, last>>

\* Structures::read(entry_point.table_max) and the Bios made of it.
Structures_read ==
    /\ call.pc = "structures"
    /\ reads' = Append(reads, STRUCTURES_PATH)
    /\ call' = NotCalled
    /\ IF files[STRUCTURES_PATH] = None
       THEN out' = Err("StructuresNotFound") /\ bios' = bios
       ELSE IF /\ call.entry_point.table_max # 0
               /\ Len(files[STRUCTURES_PATH][1]) > call.entry_point.table_max
       THEN out' = Err("StructuresMalformed") /\ bios' = bios
       ELSE /\ out' = [op |-> "Bios::read", res |-> "Ok"]
            /\ bios' = Some([entry_point |-> call.entry_point,
                             structures |-> files[STRUCTURES_PATH][1]])
    /\ UNCHANGED <<raw, sizeVars, line, files, facade, last>>

\* StructureKind::from_u8
from_u8(num) ==
    CASE num = 0 -> "BiosInformation"
      [] num = 1 -> "SystemInformation"
      [] num = 3 -> "SystemEnclosure"
      [] num = 4 -> "ProcessorInformation"
      [] num = 7 -> "CacheInformation"
      [] num = 9 -> "SystemSlots"
      [] num = 16 -> "PhysicalMemoryArray"
      [] num = 17 -> "MemoryDevice"
      [] num = 19 -> "MemoryArrayMappedAddress"
      [] num = 32 -> "SystemBootInformation"
      [] OTHER -> "Unknown"

memmem_find_or_end(hay) ==
    LET at == {i \in 1..(Len(hay) - 1) : hay[i] = 0 /\ hay[i + 1] = 0}
    IN  IF at = {} THEN Some(Len(hay)) ELSE Some(Min(at) - 1)

\* memmem::find(haystack, &[0, 0]): the offset of the first two zero bytes
\* in a row, an Option.
memmem_find(hay) ==
    LET at == {i \in 1..(Len(hay) - 1) : hay[i] = 0 /\ hay[i + 1] = 0}
    IN  IF at = {} THEN None ELSE Some(Min(at) - 1)

formatted_len_of_area(header) == header.len

\* (header.len as usize).max(STRUCTURE_HEADER_LEN) - STRUCTURE_HEADER_LEN
formatted_len(header) ==
    Max({header.len, STRUCTURE_HEADER_LEN}) - STRUCTURE_HEADER_LEN

\* Structure::read on the bytes that remain: None, or the structure and
\* the bytes that remain after it.
Structure_read(r) ==
    IF Len(r) < STRUCTURE_HEADER_LEN THEN None
    ELSE LET header == [kind |-> from_u8(r[1]), len |-> r[2],
                        handle |-> le(SubSeq(r, 3, 4))]
             body == SubSeq(r, STRUCTURE_HEADER_LEN + 1, Len(r))
         IN  IF Len(body) < formatted_len(header) + 2 THEN None
             ELSE LET after   == SubSeq(body, formatted_len(header) + 1, Len(body))
                      end_pos == memmem_find(after)
                  IN  IF end_pos = None THEN None
                      ELSE Some([stru |-> [header |-> header,
                                           formatted |-> SubSeq(body, 1, formatted_len(header)),
                                           strings |-> SubSeq(after, 1, end_pos[1])],
                                 rest |-> SubSeq(after, end_pos[1] + 3, Len(after))])

read_advance_strings(r) ==
    IF Len(r) < STRUCTURE_HEADER_LEN THEN 0
    ELSE LET header == [kind |-> from_u8(r[1]), len |-> r[2],
                        handle |-> le(SubSeq(r, 3, 4))]
             body == SubSeq(r, STRUCTURE_HEADER_LEN + 1, Len(r))
         IN  IF Len(body) < formatted_len(header) + 2 THEN STRUCTURE_HEADER_LEN
             ELSE LET after   == SubSeq(body, formatted_len(header) + 1, Len(body))
                      end_pos == memmem_find(after)
                  IN  IF end_pos = None
                      THEN STRUCTURE_HEADER_LEN + formatted_len(header)
                      ELSE STRUCTURE_HEADER_LEN + formatted_len(header) + end_pos[1]

\* The bytes a call of Structure::read takes off the reader: none when the
\* header is not there, the header when the rest is too short, the header
\* and the formatted area when no two zero bytes follow, and the whole
\* structure with its two zero bytes otherwise.
read_advance(r) ==
    IF Len(r) < STRUCTURE_HEADER_LEN THEN 0
    ELSE LET header == [kind |-> from_u8(r[1]), len |-> r[2],
                        handle |-> le(SubSeq(r, 3, 4))]
             body == SubSeq(r, STRUCTURE_HEADER_LEN + 1, Len(r))
         IN  IF Len(body) < formatted_len(header) + 2 THEN STRUCTURE_HEADER_LEN
             ELSE LET after   == SubSeq(body, formatted_len(header) + 1, Len(body))
                      end_pos == memmem_find(after)
                  IN  IF end_pos = None
                      THEN STRUCTURE_HEADER_LEN + formatted_len(header)
                      ELSE STRUCTURE_HEADER_LEN + formatted_len(header) + end_pos[1] + 2

\* Structures::structures: Structure::read until it returns None.
RECURSIVE structures(_)
structures(bs) ==
    IF Structure_read(bs) = None THEN <<>>
    ELSE <<Structure_read(bs)[1].stru>> \o structures(Structure_read(bs)[1].rest)

\* What a call comes to: it panics or it returns.
Panicked == [panic |-> TRUE, val |-> None]

Returned(v) == [panic |-> FALSE, val |-> v]

\* BiosInformation::from with the test of the length left out.
BiosInformation_from_unchecked(stru) ==
    LET char_ext_len == (stru.header.len - 18) % 256
        r == read_fields(stru.formatted, 1,
                         <<1, 1, 2, 1, 1, 4, char_ext_len, 1, 1, 1, 1>>)
    IN  IF ~r.ok THEN Panicked
        ELSE Returned(Some([vendor |-> le(r.vals[1]), version |-> le(r.vals[2]),
                   starting_addr |-> le(r.vals[3]), release_date |-> le(r.vals[4]),
                   rom_size |-> le(r.vals[5]), characteristics |-> le(r.vals[6]),
                   characteristics_extension |-> r.vals[7],
                   major |-> le(r.vals[8]), minor |-> le(r.vals[9]),
                   emc_major |-> le(r.vals[10]), emc_minor |-> le(r.vals[11])]))

BiosInformation_from(stru) ==
    IF stru.header.len < BIOS_INFO_MIN_LEN + STRUCTURE_HEADER_LEN THEN Returned(None)
    ELSE LET char_ext_len == stru.header.len - 18
             r == read_fields(stru.formatted, 1,
                              <<1, 1, 2, 1, 1, 4, char_ext_len, 1, 1, 1, 1>>)
         IN  IF ~r.ok THEN Panicked
             ELSE Returned(Some([vendor |-> le(r.vals[1]), version |-> le(r.vals[2]),
                        starting_addr |-> le(r.vals[3]), release_date |-> le(r.vals[4]),
                        rom_size |-> le(r.vals[5]), characteristics |-> le(r.vals[6]),
                        characteristics_extension |-> r.vals[7],
                        major |-> le(r.vals[8]), minor |-> le(r.vals[9]),
                        emc_major |-> le(r.vals[10]), emc_minor |-> le(r.vals[11])]))

\* The uuid is held as the 16 bytes it is made of.
SystemInformation_from(stru) ==
    IF stru.header.len < SYSTEM_INFO_MIN_LEN + STRUCTURE_HEADER_LEN THEN Returned(None)
    ELSE LET r == read_fields(stru.formatted, 1, <<1, 1, 1, 1, 4, 2, 2, 8, 1, 1, 1>>)
         IN  IF ~r.ok THEN Panicked
             ELSE Returned(Some([manufacturer |-> le(r.vals[1]), product_name |-> le(r.vals[2]),
                        version |-> le(r.vals[3]), serial_number |-> le(r.vals[4]),
                        uuid |-> r.vals[5] \o r.vals[6] \o r.vals[7] \o r.vals[8],
                        wake_up_kind |-> le(r.vals[9]), sku_number |-> le(r.vals[10]),
                        family |-> le(r.vals[11])]))

\* find(|s| s.header.kind == kind)
RECURSIVE find_kind(_, _)
find_kind(strus, kind) ==
    IF strus = <<>> THEN None
    ELSE IF Head(strus).header.kind = kind THEN Some(Head(strus))
    ELSE find_kind(Tail(strus), kind)

(***************************************************************************)
(* The entry points and DMI tables under test.                             *)
(***************************************************************************)
U8_MAX == 255

\* An entry point of SMBIOS 3 with the given bytes of table_max.
EntryPointOf(table_max) ==
    ANCHOR_STRING \o <<1, 24, 3, 4, 0, 1, 0>> \o table_max
        \o <<0, 0, 0, 0, 0, 0, 0, 0>>

EntryPoints == {
    None,
    Some(EntryPointOf(<<0, 0, 0, 0>>)),
    Some(EntryPointOf(<<8, 0, 0, 0>>)),
    Some(EntryPointOf(<<44, 1, 0, 0>>)),
    Some(<<95, 83, 77, 95>> \o [i \in 1..20 |-> i]),
    Some(ANCHOR_STRING \o <<1, 24>>),
    Some(<<95, 83>>) }

\* A structure of the given kind and declared length, with one string.
StructureOf(kind, len) ==
    <<kind, len, 1, 0>>
        \o [i \in 1..(Max({len, 4}) - 4) |-> (i % 100) + 1]
        \o <<65, 0, 0>>

DmiTables == {
    None,
    Some(<<>>),
    Some(StructureOf(0, 24) \o StructureOf(1, 27)),
    Some(StructureOf(1, 4) \o StructureOf(0, 18)),
    Some(<<0, 30, 1, 0, 1, 2, 3, 0, 0>>) }

BiosFiles ==
    { [NoFiles EXCEPT ![ENTRY_POINT_PATH] = e, ![STRUCTURES_PATH] = d] :
        e \in EntryPoints, d \in DmiTables }
    \cup
    { [NoFiles EXCEPT ![ENTRY_POINT_PATH] = Some(EntryPointOf(<<0, 0, 0, 0>>)),
                      ![STRUCTURES_PATH] = Some(StructureOf(kind, len))] :
        kind \in {0, 1}, len \in 0..U8_MAX }

InitBios ==
    /\ files \in BiosFiles
    /\ reads = <<>>
    /\ call = NotCalled
    /\ bios = None
    /\ facade = "none"
    /\ last = None
    /\ out = NoCall
    /\ KvIdle
    /\ SizeIdle
    /\ MountIdle

\* Bios::bios_info up to BiosInformation::from.
CallBiosInformationFrom ==
    /\ out = NoCall
    /\ bios # None
    /\ find_kind(structures(bios[1].structures), "BiosInformation") # None
    /\ LET stru == find_kind(structures(bios[1].structures), "BiosInformation")[1]
       IN  out' = [op |-> "BiosInformation::from", stru |-> stru,
                   ret |-> BiosInformation_from(stru)]
    /\ UNCHANGED <<raw, sizeVars, line, ioVars>>

\* Bios::system_info up to SystemInformation::from.
CallSystemInformationFrom ==
    /\ out = NoCall
    /\ bios # None
    /\ find_kind(structures(bios[1].structures), "SystemInformation") # None
    /\ LET stru == find_kind(structures(bios[1].structures), "SystemInformation")[1]
       IN  out' = [op |-> "SystemInformation::from", stru |-> stru,
                   ret |-> SystemInformation_from(stru)]
    /\ UNCHANGED <<raw, sizeVars, line, ioVars>>

NextBios ==
    \/ EntryPoint_read_file
    \/ EntryPoint_read_check
    \/ Structures_read
    \/ CallBiosInformationFrom
    \/ CallSystemInformationFrom
    \/ DropResult

SpecBios == InitBios /\ [][NextBios]_vars

\* The entry point file holds the bytes EntryPoint::read asks for and they
\* do not start with the anchor.
WrongAnchor ==
    /\ files[ENTRY_POINT_PATH] # None
    /\ Len(files[ENTRY_POINT_PATH][1]) >= 24
    /\ SubSeq(files[ENTRY_POINT_PATH][1], 1, 5) # <<95, 83, 77, 51, 95>>

\* C19: with an entry point that does not start with "_SM3_", Bios::read
\* fails with AnchorStringIncorrect and has not opened the DMI table; the
\* DMI table is opened only with the anchor found in the entry point.
C19_AnchorBeforeTable ==
    /\ (out.op = "Bios::read" /\ WrongAnchor) =>
          /\ out.res = "Err"
          /\ out.err = "AnchorStringIncorrect"
          /\ reads = <<ENTRY_POINT_PATH>>
    /\ WrongAnchor => bios = None /\ call.pc # "structures"
    /\ (\E i \in 1..Len(reads) : reads[i] = STRUCTURES_PATH) => ~WrongAnchor

\* The SMBIOS 2 anchor in front of a DMI table that could be read.
C19_Witness ==
    /\ out.op = "Bios::read"
    /\ WrongAnchor
    /\ files[STRUCTURES_PATH] # None
    /\ out.res = "Err"
    /\ reads = <<ENTRY_POINT_PATH>>

\* C20: BiosInformation::from is None for a declared length below 18 and
\* SystemInformation::from for one below 27; from there up to 255 they
\* decode, every byte taken from inside the formatted area, which is the
\* declared length less the 4 bytes of the header.
C20_DecodeInBounds ==
    /\ out.op = "BiosInformation::from" =>
          LET n == out.stru.header.len
              f == out.stru.formatted
          IN  /\ n < 18 => out.ret = Returned(None)
              /\ n >= 18 =>
                    /\ Len(f) = n - 4
                    /\ ~out.ret.panic
                    /\ out.ret.val # None
                    /\ out.ret.val[1].vendor = f[1]
                    /\ out.ret.val[1].characteristics_extension = SubSeq(f, 11, n - 8)
                    /\ out.ret.val[1].major = f[n - 7]
                    /\ out.ret.val[1].emc_minor = f[n - 4]
    /\ out.op = "SystemInformation::from" =>
          LET n == out.stru.header.len
              f == out.stru.formatted
          IN  /\ n < 27 => out.ret = Returned(None)
              /\ n >= 27 =>
                    /\ Len(f) = n - 4
                    /\ ~out.ret.panic
                    /\ out.ret.val # None
                    /\ out.ret.val[1].manufacturer = f[1]
                    /\ out.ret.val[1].uuid = SubSeq(f, 5, 20)
                    /\ out.ret.val[1].family = f[23]

\* The longest structure there can be, decoded to its last byte.
C20_Witness ==
    /\ out.op = "BiosInformation::from"
    /\ out.stru.header.len = 255
    /\ out.ret.val # None
    /\ Len(out.ret.val[1].characteristics_extension) = 237
    /\ out.ret.val[1].emc_minor = out.stru.formatted[251]

(***************************************************************************)
(* reload of the readers that own a String: Memory, MountPoints, Raids and *)
(* Uptime (read_to_string_mut, src/src/util.rs).                           *)
(*                                                                         *)
(* A file holds characters and bytes that are no UTF-8; a read of it may   *)
(* fail after any number of bytes.                                         *)
(***************************************************************************)
NotUtf8 == "<ff>"

from_utf8_is_ok(got) == \A i \in 1..Len(got) : got[i] # NotUtf8

\* file.read_to_string(s), with fail the number of bytes after which the
\* read fails, an Option: the bytes read are appended to s; they stay when
\* they are UTF-8, whether the read failed or not, and s is cut back to
\* what it was when they are not.
read_to_string(content, s, fail) ==
    LET got == IF fail = None THEN content ELSE SubSeq(content, 1, fail[1])
    IN  [res |-> IF fail = None /\ from_utf8_is_ok(got) THEN "Ok" ELSE "Err",
         s |-> IF from_utf8_is_ok(got) THEN s \o got ELSE s]

read_to_string_mut_no_clear(file, s, fail) ==
    IF file = None THEN [res |-> "Err", s |-> s]
    ELSE read_to_string(file[1], s, fail)

read_to_string_mut_open_first(file, s, fail) ==
    IF file = None THEN [res |-> "Err", s |-> s]
    ELSE read_to_string(file[1], <<>>, fail)

\* s.clear(), then File::open(path)?, then file.read_to_string(s)
read_to_string_mut(file, s, fail) ==
    IF file = None THEN [res |-> "Err", s |-> <<>>]
    ELSE read_to_string(file[1], <<>>, fail)

ReloadTexts == {
    <<>>,
    <<"a", ":", "1", "\n">>,
    <<"a", ":", "2", "\n", "b", ":", "3", "\n">>,
    <<"a", ":", NotUtf8, "\n">> }

ReloadFileStates == {None} \cup { Some(t) : t \in ReloadTexts }

\* The points at which a read of the file may fail.
Failures(file) ==
    {None} \cup (IF file = None THEN {} ELSE { Some(k) : k \in 0..Len(file[1]) })

\* The reader was made by read(): the buffer is the text of its file.
InitReload ==
    /\ facade \in Facades
    /\ \E t \in { u \in ReloadTexts : from_utf8_is_ok(u) } :
          /\ files = [NoFiles EXCEPT ![path(facade)] = Some(t)]
          /\ raw = t
          /\ last = Some([file |-> Some(t), res |-> "Ok"])
    /\ reads = <<>>
    /\ call = NotCalled
    /\ bios = None
    /\ out = NoCall
    /\ SizeIdle
    /\ MountIdle

\* Memory::reload, MountPoints::reload, Raids::reload, Uptime::reload
reload ==
    \E fail \in Failures(files[path(facade)]) :
        LET r == read_to_string_mut(files[path(facade)], raw, fail)
        IN  /\ out = NoCall
            /\ raw' = r.s
            /\ reads' = <<path(facade)>>
            /\ last' = Some([file |-> files[path(facade)], res |-> r.res])
            /\ out' = [op |-> "reload", res |-> r.res, before |-> raw,
                       file |-> files[path(facade)], prev |-> last[1]]
            /\ UNCHANGED <<sizeVars, line, files, call, bios, facade>>

\* The kernel rewrites the file of the reader, or the file goes away.
KernelRewrites ==
    \E f \in ReloadFileStates :
        /\ out = NoCall
        /\ f # files[path(facade)]
        /\ files' = [files EXCEPT ![path(facade)] = f]
        /\ UNCHANGED <<raw, sizeVars, line, out, reads, call, bios, facade, last>>

NextReload ==
    \/ reload
    \/ KernelRewrites
    \/ DropResult

SpecReload == InitReload /\ [][NextReload]_vars

\* C21: after a successful reload the buffer is the content of the file at
\* the time of the call, with nothing left of what it held before; when
\* the call before it succeeded on the same content, the buffer, and with
\* it every value read from it, is what it was before the reload.
C21_ReloadIdempotent ==
    (out.op = "reload" /\ out.res = "Ok") =>
        /\ raw = out.file[1]
        /\ (out.prev.res = "Ok" /\ out.prev.file = out.file) =>
              /\ raw = out.before
              /\ \A key \in KvKeys :
                    Memory_value(raw, key) = Memory_value(out.before, key)

C21_Witness ==
    /\ out.op = "reload"
    /\ out.res = "Ok"
    /\ out.prev.res = "Ok"
    /\ out.prev.file = out.file
    /\ raw = out.before
    /\ Memory_value(raw, <<"a">>) = Some(<<"1">>)

(***************************************************************************)
(* The decoders of the numeric codes of NetworkManager and ModemManager    *)
(* (src/src/network/network_manager.rs, src/src/network/modem_manager.rs). *)
(* An enum is the record of the discriminants of its variants.             *)
(***************************************************************************)
\* enum DeviceKind, repr(u32)
DeviceKind == [
    Unknown |-> 0, Generic |-> 14, Ethernet |-> 1, Wifi |-> 2,
    Unused1 |-> 3, Unused2 |-> 4, Bt |-> 5, OlpcMesh |-> 6, Wimax |-> 7,
    Modem |-> 8, Infiniband |-> 9, Bond |-> 10, Vlan |-> 11, Adsl |-> 12,
    Bridge |-> 13, Team |-> 15, Tun |-> 16, IpTunnel |-> 17, Macvlan |-> 18,
    Vxlan |-> 19, Veth |-> 20, Macsec |-> 21, Dummy |-> 22, Ppp |-> 23,
    OvsInterface |-> 24, OvsPort |-> 25, OvsBridge |-> 26, Wpan |-> 27,
    SixLowPan |-> 28, Wireguard |-> 29, WifiP2p |-> 30, Vrf |-> 31 ]

\* enum DeviceState, repr(u32)
DeviceState == [
    Unknown |-> 0, Unmanaged |-> 10, Unavailable |-> 20,
    Disconnected |-> 30, Prepare |-> 40, Config |-> 50, NeedAuth |-> 60,
    IpConfig |-> 70, IpCheck |-> 80, Secondaries |-> 90, Activated |-> 100,
    Deactivating |-> 110, Failed |-> 120 ]

\* enum ModemState, repr(i32)
ModemState == [
    Failed |-> -1, Unknown |-> 0, Initializing |-> 1, Locked |-> 2,
    Disabled |-> 3, Disabling |-> 4, Enabling |-> 5, Enabled |-> 6,
    Searching |-> 7, Registered |-> 8, Disconnecting |-> 9,
    Connecting |-> 10, Connected |-> 11 ]

\* enum ModemBand, repr(u32), the list of modem_band!
ModemBand == [
    Unknown |-> 0, Egsm |-> 1, Dcs |-> 2, Pcs |-> 3, G850 |-> 4,
    Utran1 |-> 5, Utran3 |-> 6, Utran4 |-> 7, Utran6 |-> 8, Utran5 |-> 9,
    Utran8 |-> 10, Utran9 |-> 11, Utran2 |-> 12, Utran7 |-> 13, G450 |-> 14,
    G480 |-> 15, G750 |-> 16, G380 |-> 17, G410 |-> 18, G710 |-> 19,
    G810 |-> 20, Eutran1 |-> 31, Eutran2 |-> 32, Eutran3 |-> 33,
    Eutran4 |-> 34, Eutran5 |-> 35, Eutran6 |-> 36, Eutran7 |-> 37,
    Eutran8 |-> 38, Eutran9 |-> 39, Eutran10 |-> 40, Eutran11 |-> 41,
    Eutran12 |-> 42, Eutran13 |-> 43, Eutran14 |-> 44, Eutran17 |-> 47,
    Eutran18 |-> 48, Eutran19 |-> 49, Eutran20 |-> 50, Eutran21 |-> 51,
    Eutran22 |-> 52, Eutran23 |-> 53, Eutran24 |-> 54, Eutran25 |-> 55,
    Eutran26 |-> 56, Eutran27 |-> 57, Eutran28 |-> 58, Eutran29 |-> 59,
    Eutran30 |-> 60, Eutran31 |-> 61, Eutran32 |-> 62, Eutran33 |-> 63,
    Eutran34 |-> 64, Eutran35 |-> 65, Eutran36 |-> 66, Eutran37 |-> 67,
    Eutran38 |-> 68, Eutran39 |-> 69, Eutran40 |-> 70, Eutran41 |-> 71,
    Eutran42 |-> 72, Eutran43 |-> 73, Eutran44 |-> 74, Eutran45 |-> 75,
    Eutran46 |-> 76, Eutran47 |-> 77, Eutran48 |-> 78, Eutran49 |-> 79,
    Eutran50 |-> 80, Eutran51 |-> 81, Eutran52 |-> 82, Eutran53 |-> 83,
    Eutran54 |-> 84, Eutran55 |-> 85, Eutran56 |-> 86, Eutran57 |-> 87,
    Eutran58 |-> 88, Eutran59 |-> 89, Eutran60 |-> 90, Eutran61 |-> 91,
    Eutran62 |-> 92, Eutran63 |-> 93, Eutran64 |-> 94, Eutran65 |-> 95,
    Eutran66 |-> 96, Eutran67 |-> 97, Eutran68 |-> 98, Eutran69 |-> 99,
    Eutran70 |-> 100, Eutran71 |-> 101, CdmaBc0 |-> 128, CdmaBc1 |-> 129,
    CdmaBc2 |-> 130, CdmaBc3 |-> 131, CdmaBc4 |-> 132, CdmaBc5 |-> 134,
    CdmaBc6 |-> 135, CdmaBc7 |-> 136, CdmaBc8 |-> 137, CdmaBc9 |-> 138,
    CdmaBc10 |-> 139, CdmaBc11 |-> 140, CdmaBc12 |-> 141, CdmaBc13 |-> 142,
    CdmaBc14 |-> 143, CdmaBc15 |-> 144, CdmaBc16 |-> 145, CdmaBc17 |-> 146,
    CdmaBc18 |-> 147, CdmaBc19 |-> 148, Utran10 |-> 210, Utran11 |-> 211,
    Utran12 |-> 212, Utran13 |-> 213, Utran14 |-> 214, Utran19 |-> 219,
    Utran20 |-> 220, Utran21 |-> 221, Utran22 |-> 222, Utran25 |-> 225,
    Utran26 |-> 226, Utran32 |-> 232, Any |-> 256 ]

\* enum RegistrationState, repr(u32)
RegistrationState == [
    Idle |-> 0, Home |-> 1, Searching |-> 2, Denied |-> 3, Unknown |-> 4,
    Roaming |-> 5 ]

\* The variants of an enum that have a discriminant.
with_discriminant(enum, num) == { v \in DOMAIN enum : enum[v] = num }

\* *(&num as *const u32 as *const Self): the variant whose discriminant is
\* num.  Where the enum has no such variant the behaviour is undefined:
\* any variant may come out, or a value that is none of them.
reinterpret(enum, num) ==
    IF with_discriminant(enum, num) # {} THEN with_discriminant(enum, num)
    ELSE DOMAIN enum \cup {"<invalid>"}

\* impl From<u32> for DeviceKind: the outcomes of from(num)
DeviceKind_from(num) ==
    IF num > 31 THEN {"Unknown"} ELSE reinterpret(DeviceKind, num)

DeviceState_from_no_step(num) ==
    IF num > 120 THEN {"Unknown"} ELSE reinterpret(DeviceState, num)

\* impl From<u32> for DeviceState
DeviceState_from(num) ==
    IF num > 120 \/ num % 10 # 0 THEN {"Unknown"}
    ELSE reinterpret(DeviceState, num)

\* impl From<i32> for ModemState
ModemState_from(num) ==
    IF num < -1 \/ num > 11 THEN {"Unknown"} ELSE reinterpret(ModemState, num)

\* impl From<u32> for ModemBand: a match with one arm per variant
ModemBand_from(num) ==
    IF with_discriminant(ModemBand, num) # {} THEN with_discriminant(ModemBand, num)
    ELSE {"Unknown"}

\* impl From<u32> for RegistrationState
RegistrationState_from(num) ==
    IF num > 5 THEN {"Unknown"} ELSE reinterpret(RegistrationState, num)

MaxCode == 300

\* The codes handed to the decoders of a u32 and to that of an i32.
U32Codes == 0..MaxCode \cup {2147483647}

I32Codes == (0 - 3)..MaxCode \cup {0 - 2147483647, 2147483647}

Decoders == [
    DeviceKind |-> [enum |-> DeviceKind, codes |-> U32Codes],
    DeviceState |-> [enum |-> DeviceState, codes |-> U32Codes],
    ModemState |-> [enum |-> ModemState, codes |-> I32Codes],
    ModemBand |-> [enum |-> ModemBand, codes |-> U32Codes],
    RegistrationState |-> [enum |-> RegistrationState, codes |-> U32Codes] ]

InitDecode ==
    /\ out = NoCall
    /\ KvIdle
    /\ SizeIdle
    /\ MountIdle
    /\ IoIdle

Decoded(type, num, res) ==
    /\ out = NoCall
    /\ out' = [op |-> "from", type |-> type, num |-> num, res |-> res]
    /\ UNCHANGED <<raw, sizeVars, line, ioVars>>

CallDeviceKindFrom ==
    \E num \in U32Codes : \E res \in DeviceKind_from(num) :
        Decoded("DeviceKind", num, res)

CallDeviceStateFrom ==
    \E num \in U32Codes : \E res \in DeviceState_from(num) :
        Decoded("DeviceState", num, res)

CallModemStateFrom ==
    \E num \in I32Codes : \E res \in ModemState_from(num) :
        Decoded("ModemState", num, res)

CallModemBandFrom ==
    \E num \in U32Codes : \E res \in ModemBand_from(num) :
        Decoded("ModemBand", num, res)

CallRegistrationStateFrom ==
    \E num \in U32Codes : \E res \in RegistrationState_from(num) :
        Decoded("RegistrationState", num, res)

NextDecode ==
    \/ CallDeviceKindFrom
    \/ CallDeviceStateFrom
    \/ CallModemStateFrom
    \/ CallModemBandFrom
    \/ CallRegistrationStateFrom
    \/ DropResult

SpecDecode == InitDecode /\ [][NextDecode]_vars

\* The codes the decoder of a type hands to the raw re-interpretation.
Accepted(type) ==
    CASE type = "DeviceKind" -> 0..31
      [] type = "DeviceState" -> { 10 * k : k \in 0..12 }
      [] type = "ModemState" -> (0 - 1)..11
      [] type = "RegistrationState" -> 0..5
      [] type = "ModemBand" -> {}

\* C22: a decoder returns the variant whose discriminant is the code when
\* the enum defines one and Unknown otherwise, and every code a decoder
\* re-interprets has a variant.
C22_DecodersTotal ==
    out.op = "from" =>
        LET enum == Decoders[out.type].enum
        IN  /\ out.res \in DOMAIN enum
            /\ IF \E v \in DOMAIN enum : enum[v] = out.num
               THEN enum[out.res] = out.num
               ELSE out.res = "Unknown"
            /\ out.num \in Accepted(out.type) =>
                  \E v \in DOMAIN enum : enum[v] = out.num

C22_Witness ==
    /\ out.op = "from"
    /\ out.type = "DeviceState"
    /\ out.num = 15
    /\ out.res = "Unknown"

(***************************************************************************)
(* The walk over the structures of a DMI table and the strings of a        *)
(* structure (Structures::structures, Structure::read, Structure::get_str, *)
(* src/src/bios/low_level.rs).  The iterator is taken one call of next at  *)
(* a time, up to the first None, as find and for take it; call holds the   *)
(* position of its reader and the structures it has yielded.               *)
(***************************************************************************)
\* str::from_utf8: bytes below 0x80 are UTF-8 as they are, and the byte
\* 0xFF is part of no UTF-8; the tables under test hold no other byte from
\* 0x80 on.
str_from_utf8(bs) ==
    IF \A i \in 1..Len(bs) : bs[i] < 128 THEN Some(bs) ELSE None

get_str_zero_based(stru, num) ==
    LET pieces == split(stru.strings, <<0>>)
    IN  IF num + 1 > Len(pieces) THEN None ELSE str_from_utf8(pieces[num + 1])

\* Structure::get_str: split(|b| *b == 0).nth(num.max(1) - 1), then
\* from_utf8(..).ok()
get_str(stru, num) ==
    LET pieces == split(stru.strings, <<0>>)
        n      == Max({num, 1}) - 1
    IN  IF n + 1 > Len(pieces) THEN None ELSE str_from_utf8(pieces[n + 1])

MaxStructures == 2

\* A structure as it lies in the table: the header with the declared
\* length, a formatted area of that length less the header, the strings
\* and the two zero bytes.
Framed(len, formatted, strings) ==
    <<127, len, 1, 0>> \o formatted \o strings \o <<0, 0>>

WalkStructures == {
    Framed(0, <<>>, <<>>),
    Framed(3, <<>>, <<255>>),
    Framed(4, <<>>, <<0, 65>>),
    Framed(5, <<7>>, <<65>>),
    Framed(6, <<0, 0>>, <<65, 0, 66, 67>>) }

\* What follows the last whole structure: nothing, a part of a header, a
\* header with less than its formatted area and two bytes, a structure
\* that no two zero bytes end.
WalkTails == {
    <<>>,
    <<1, 9, 0>>,
    <<1, 9, 0, 0, 5, 0, 0>>,
    <<1, 2, 0, 0, 0>>,
    <<1, 5, 0, 0, 0, 65, 0>> }

WalkTables ==
    { concat(ss) \o tail :
        ss \in UNION { [1..n -> WalkStructures] : n \in 0..MaxStructures },
        tail \in WalkTails }
    \cup { StructureOf(127, len) : len \in 0..U8_MAX }

StrNumbers == 0..3 \cup {U8_MAX}

\* A Bios has been read and none of its iterators made yet.
InitWalk ==
    /\ \E table \in WalkTables :
          /\ files = [NoFiles EXCEPT
                         ![ENTRY_POINT_PATH] = Some(EntryPointOf(<<0, 0, 0, 0>>)),
                         ![STRUCTURES_PATH] = Some(table)]
          /\ bios = Some([entry_point |-> EntryPoint_fields(EntryPointOf(<<0, 0, 0, 0>>)),
                          structures |-> table])
    /\ reads = <<ENTRY_POINT_PATH, STRUCTURES_PATH>>
    /\ call = NotCalled
    /\ facade = "none"
    /\ last = None
    /\ out = NoCall
    /\ KvIdle
    /\ SizeIdle
    /\ MountIdle

\* Structures::structures: a reader at the start of the bytes.
Structures_structures ==
    /\ out = NoCall
    /\ call.pc = "idle"
    /\ call' = [pc |-> "walk", pos |-> 0, items |-> <<>>]
    /\ UNCHANGED <<raw, sizeVars, line, out, files, reads, bios, facade, last>>

\* One call of next: Structure::read on the reader.  The iterator is let
\* go of when it returns None.
Structures_next ==
    /\ out = NoCall
    /\ call.pc = "walk"
    /\ LET remaining == SubSeq(bios[1].structures, call.pos + 1,
                               Len(bios[1].structures))
           res == Structure_read(remaining)
           pos == call.pos + read_advance(remaining)
       IN  /\ out' = [op |-> "next", start |-> call.pos, pos |-> pos,
                      items |-> call.items,
                      res |-> IF res = None THEN None ELSE Some(res[1].stru)]
           /\ call' = IF res = None THEN NotCalled
                      ELSE [pc |-> "walk", pos |-> pos,
                            items |-> Append(call.items,
                                [start |-> call.pos, end |-> pos, stru |-> res[1].stru])]
    /\ UNCHANGED <<raw, sizeVars, line, files, reads, bios, facade, last>>

\* get_str on a structure of the table.
CallGetStr ==
    \E i \in 1..Len(structures(bios[1].structures)), num \in StrNumbers :
        /\ out = NoCall
        /\ call.pc = "idle"
        /\ out' = [op |-> "get_str", stru |-> structures(bios[1].structures)[i],
                   num |-> num,
                   res |-> get_str(structures(bios[1].structures)[i], num)]
        /\ UNCHANGED <<raw, sizeVars, line, ioVars>>

NextWalk ==
    \/ Structures_structures
    \/ Structures_next
    \/ CallGetStr
    \/ DropResult

SpecWalk == InitWalk /\ [][NextWalk]_vars

\* The table the walk goes over, and what lies in it at an offset, by
\* the layout of a structure: the declared length, the length of the
\* formatted area, and the places from an offset on where two zero bytes
\* lie in a row.
Table == bios[1].structures

DeclaredLen(at) == Table[at + 2]

AreaLen(at) == IF DeclaredLen(at) <= 4 THEN 0 ELSE DeclaredLen(at) - 4

DoubleNulls(from) ==
    { j \in (from + 1)..(Len(Table) - 1) : Table[j] = 0 /\ Table[j + 1] = 0 }

HeaderMissing(at) == Len(Table) - at < 4

BodyShort(at) == Len(Table) - (at + 4) < AreaLen(at) + 2

NoTerminator(at) == DoubleNulls(at + 4 + AreaLen(at)) = {}

\* The structure that lies at an offset, where one does.
StructureAt(at) ==
    LET strs == at + 4 + AreaLen(at)
        term == Min(DoubleNulls(strs))
    IN  [header |-> [kind |-> from_u8(Table[at + 1]), len |-> DeclaredLen(at),
                     handle |-> Table[at + 3] + 256 * Table[at + 4]],
         formatted |-> SubSeq(Table, at + 5, strs),
         strings |-> SubSeq(Table, strs + 1, term - 1)]

\* C23: the formatted area of a structure is max(length, 4) - 4 bytes: none
\* for a declared length of 0 to 4 and length - 4 bytes otherwise, never
\* less than none, and a structure of any declared length is yielded when
\* the table holds that area and two zero bytes after it.
C23_FormattedLength ==
    (out.op = "next" /\ ~HeaderMissing(out.start)) =>
        /\ AreaLen(out.start) >= 0
        /\ out.res # None =>
              /\ Len(out.res[1].formatted) = AreaLen(out.start)
              /\ out.res[1].formatted =
                     SubSeq(Table, out.start + 5, out.start + 4 + AreaLen(out.start))
        /\ (~BodyShort(out.start) /\ ~NoTerminator(out.start)) => out.res # None

C23_Witness ==
    /\ out.op = "next"
    /\ out.res # None
    /\ out.res[1].header.len = 3
    /\ out.res[1].formatted = <<>>
    /\ out.res[1].strings = <<255>>

\* C24: the walk yields None, and no error, exactly when fewer than 4
\* bytes are left for the header, when fewer bytes than the formatted area
\* and 2 more are left after it, or when no two zero bytes in a row lie
\* after the formatted area; the walk is over then, and the structures
\* yielded before are the ones that lie in the table.
C24_WalkEndsCleanly ==
    out.op = "next" =>
        /\ out.res = None <=>
              \/ HeaderMissing(out.start)
              \/ BodyShort(out.start)
              \/ NoTerminator(out.start)
        /\ out.res = None =>
              /\ call = NotCalled
              /\ \A i \in 1..Len(out.items) :
                    out.items[i].stru = StructureAt(out.items[i].start)

C24_Witness ==
    /\ out.op = "next"
    /\ out.res = None
    /\ ~HeaderMissing(out.start)
    /\ ~BodyShort(out.start)
    /\ NoTerminator(out.start)
    /\ Len(out.items) = 2

\* The strings of a string area, by the places of its zero bytes: an area
\* of no bytes holds none, any other one more than it holds zero bytes.
Zeros(area) == { i \in 1..Len(area) : area[i] = 0 }

StrCount(area) == IF area = <<>> THEN 0 ELSE Cardinality(Zeros(area)) + 1

\* The place of the n-th zero byte; 0 and the place after the area stand
\* in for the ones before the first string and after the last.
NthZero(area, n) ==
    IF n = 0 THEN 0
    ELSE IF n > Cardinality(Zeros(area)) THEN Len(area) + 1
    ELSE CHOOSE i \in Zeros(area) : Cardinality({ j \in Zeros(area) : j <= i }) = n

StrOf(area, n) == SubSeq(area, NthZero(area, n - 1) + 1, NthZero(area, n) - 1)

C26_GetStrNone ==
    (/\ out.op = "get_str"
     /\ out.num = 0 \/ out.num > StrCount(out.stru.strings)) =>
        out.res = None

\* C28: the reader of the walk never stands past the end of the table;
\* the structures yielded lie one after the other from the start of the
\* table, each the 4 bytes of its header, its formatted area, its strings
\* and 2 zero bytes, with no two zero bytes in a row among the strings;
\* each is 6 bytes or more, so that 6 times their number is at most the
\* length of the table.
InPlace(items) ==
    \A i \in 1..Len(items) :
        /\ items[i].start = (IF i = 1 THEN 0 ELSE items[i - 1].end)
        /\ items[i].end = items[i].start + 4 + Len(items[i].stru.formatted)
                              + Len(items[i].stru.strings) + 2
        /\ items[i].end <= Len(Table)
        /\ SubSeq(Table, items[i].start + 1, items[i].end) =
               <<Table[items[i].start + 1], items[i].stru.header.len,
                 items[i].stru.header.handle % 256, items[i].stru.header.handle \div 256>>
                 \o items[i].stru.formatted \o items[i].stru.strings \o <<0, 0>>
        /\ \A j \in 1..(Len(items[i].stru.strings) - 1) :
               ~(items[i].stru.strings[j] = 0 /\ items[i].stru.strings[j + 1] = 0)
        /\ items[i].end - items[i].start >= 6

C28_WalkFraming ==
    /\ call.pc = "walk" =>
          /\ call.pos <= Len(Table)
          /\ InPlace(call.items)
          /\ call.items # <<>> => call.pos = call.items[Len(call.items)].end
          /\ 6 * Len(call.items) <= Len(Table)
    /\ out.op = "next" =>
          /\ out.start <= out.pos
          /\ out.pos <= Len(Table)
          /\ InPlace(out.items)
          /\ out.res = None => call = NotCalled

C28_Witness ==
    /\ call.pc = "walk"
    /\ Len(call.items) = 2
    /\ call.items[2].stru.strings = <<65, 0, 66, 67>>
    /\ call.items[2].start = 6
    /\ call.pos = 18
    /\ call.pos < Len(Table)

(***************************************************************************)
(* Raids::raids (src/src/storage.rs) taken one step of its scanner at a    *)
(* time.  call holds the iterator: the position p of the parser in the     *)
(* trimmed buffer, the flag first_line, the locals key, start and one of   *)
(* the closure while it is in its loop, and the records yielded so far     *)
(* with the positions the closure was entered and left at.                 *)
(***************************************************************************)
MaxScanLen == 6

ScanBytes == {"a", ":", "\n"}

UnusedLine == UnusedDevices \o <<":", " ", "x">>

ScanBuffers ==
    UNION { [1..n -> ScanBytes] : n \in 0..MaxScanLen }
    \cup { <<"P", "\n">> \o UnusedLine,
           <<"P", "\n", "m", " ", ":", " ", "a", "\n", "\n">> \o UnusedLine
               \o <<"\n", "\n", "n", ":", "b">>,
           <<"m", ":", "a", "\n", " ", "b", "\n", "\n", "\n", "n", ":", "\n">>,
           UnusedLine \o <<"\n", "m", ":", "a", "\n", "\n", "n", ":", "b", "\n">> }

InitScan ==
    /\ raw \in ScanBuffers
    /\ out = NoCall
    /\ SizeIdle
    /\ IoIdle
    /\ MountIdle

\* raids(): the parser at the start of self.raw.trim(), first_line false.
raids_iter ==
    /\ out = NoCall
    /\ call.pc = "idle"
    /\ call' = [pc |-> "closure", p |-> 1, first_line |-> FALSE, recs |-> <<>>]
    /\ UNCHANGED <<raw, sizeVars, line, out, files, reads, bios, facade, last>>

\* parse_iter is over: the closure returned None.
IterOver ==
    /\ call' = NotCalled
    /\ out' = [op |-> "raids",
               res |-> [i \in 1..Len(call.recs) |->
                           [name |-> call.recs[i].name, raw |-> call.recs[i].raw]]]

\* The closure up to its loop: the first line is passed over on the first
\* call, peek()? ends the iterator at the end of the buffer, the key is
\* read up to the ':' and "unused devices" ends the iterator.
closure_enter ==
    /\ call.pc = "closure"
    /\ LET t  == trim(raw)
           p0 == IF call.first_line THEN call.p ELSE consume_first_line(t, call.p)
           c  == while_not_colon(t, p0)
           key == trim(SubSeq(t, p0, c - 1))
           start == IF c <= Len(t) THEN c + 1 ELSE c
       IN  IF p0 > Len(t) \/ key = UnusedDevices THEN IterOver
           ELSE /\ call' = [pc |-> "loop", p |-> start, first_line |-> TRUE,
                            recs |-> call.recs, key |-> key, start |-> start,
                            one |-> FALSE, entry |-> call.p]
                /\ out' = out
    /\ UNCHANGED <<raw, sizeVars, line, files, reads, bios, facade, last>>

\* return Some(Raid::from_str(key, ..)): the closure is left at position p.
Yield(p, upto) ==
    call' = [pc |-> "closure", p |-> p, first_line |-> TRUE,
             recs |-> Append(call.recs,
                 [name |-> call.key,
                  raw |-> trim(SubSeq(trim(raw), call.start, upto)),
                  entry |-> call.entry, exit |-> p])]

\* if one && matches!(parser.peek(), Some(b'\n')): the record is finished
\* and the newline passed over.
loop_finished ==
    /\ call.pc = "loop"
    /\ call.one
    /\ call.p <= Len(trim(raw))
    /\ trim(raw)[call.p] = "\n"
    /\ Yield(call.p + 1, call.p - 1)
    /\ UNCHANGED <<raw, sizeVars, line, out, files, reads, bios, facade, last>>

loop_one_kept ==
    /\ call.pc = "loop"
    /\ call.one
    /\ ~(call.p <= Len(trim(raw)) /\ trim(raw)[call.p] = "\n")
    /\ UNCHANGED vars

\* if one { one = false; continue }
loop_one ==
    /\ call.pc = "loop"
    /\ call.one
    /\ ~(call.p <= Len(trim(raw)) /\ trim(raw)[call.p] = "\n")
    /\ call' = [call EXCEPT !.one = FALSE]
    /\ UNCHANGED <<raw, sizeVars, line, out, files, reads, bios, facade, last>>

\* match parser.next(): a byte is taken, and one set by a newline; at the
\* end of the buffer the record is finished.
loop_next ==
    /\ call.pc = "loop"
    /\ ~call.one
    /\ IF call.p <= Len(trim(raw))
       THEN call' = [call EXCEPT !.p = @ + 1, !.one = (trim(raw)[call.p] = "\n")]
       ELSE Yield(call.p, Len(trim(raw)))
    /\ UNCHANGED <<raw, sizeVars, line, out, files, reads, bios, facade, last>>

NextScan ==
    \/ raids_iter
    \/ closure_enter
    \/ loop_finished
    \/ loop_one
    \/ loop_next
    \/ DropResult

\* The scanner is sequential code: it goes on as long as it has a step.
SpecScan == InitScan /\ [][NextScan]_vars /\ WF_vars(NextScan)

\* What is left for the loop to do: two for each byte not yet taken, and
\* one for the flag.
Left(c) == 2 * (Len(trim(raw)) + 1 - c.p) + (IF c.one THEN 1 ELSE 0)

Scanning == call.pc \in {"closure", "loop"}

ScanBounded ==
    /\ Scanning =>
          /\ call.p >= 1
          /\ call.p <= Len(trim(raw)) + 1
          /\ \A i \in 1..Len(call.recs) :
                /\ call.recs[i].entry < call.recs[i].exit
                /\ call.recs[i].entry = (IF i = 1 THEN 1 ELSE call.recs[i - 1].exit)
                /\ call.recs[i].exit <= call.p
          /\ Len(call.recs) <= Len(raw)
    /\ out.op = "raids" =>
          /\ Len(out.res) <= Len(raw)
          /\ out.res = raids(raw)

\* C27: iterating raids() comes to its end on every buffer: a step of the
\* loop takes a byte, clears the flag one or finishes the record, every
\* record yielded has the parser further on than it was, the records are
\* no more than the bytes of the buffer, and an iteration begun is over
\* at some point.
C27_ScanTerminates ==
    /\ []ScanBounded
    /\ [][(call.pc = "loop" /\ call'.pc = "loop") => Left(call') < Left(call)]_vars
    /\ (Scanning ~> ~Scanning)

C27_Witness ==
    /\ out.op = "raids"
    /\ raw = <<"a", "\n", ":", "\n", "\n", ":">>
    /\ Len(out.res) = 2

\* C29: on a line with a "-" token from position 6 on, the token that
\* ends optional_fields, filesystem_type is the token at position 7 plus
\* the number of optional fields, the one right after that "-", also when
\* token 5 is "-" itself.
C29_SameSeparator ==
    (/\ out.op = "filesystem_type"
     /\ \E i \in 6..(PieceCount(line, " ") - 1) : Token(line, i) = Some(<<"-">>)) =>
        out.res = Token(line, 7 + Len(optional_fields(line)))

\* C30 as stated: a reload that returns an error leaves the buffer as it
\* was before the call.
C30_ErrorKeepsBuffer ==
    (out.op = "reload" /\ out.res = "Err") => raw = out.before

\* C30, amended: a reload that returns an error leaves nothing of the
\* earlier buffer: the buffer is empty when the file could not be opened
\* or what was read of it is no UTF-8, and it is what was read of the file
\* when the read failed later.
C30_ErrorClearsBuffer ==
    (out.op = "reload" /\ out.res = "Err") =>
        /\ out.file = None => raw = <<>>
        /\ out.file # None =>
              /\ \E k \in 0..Len(out.file[1]) : raw = SubSeq(out.file[1], 1, k)
              /\ from_utf8_is_ok(raw)

C30_Witness ==
    /\ out.op = "reload"
    /\ out.res = "Err"
    /\ out.file = None
    /\ out.before # <<>>
    /\ raw = <<>>
====
